---- MODULE Spec2Model ----
(***************************************************************************)
(* json-extract-rules: the runtime of the Node-RED node                    *)
(* (src/json-extract-rules.js).  A run is the "input" handler working on   *)
(* one message: it snapshots the effective rule-set, resolves the source   *)
(* root, and takes every rule through select -> filter -> map ->           *)
(* aggregate -> output -> empty handling, accumulating warnings and errors *)
(* on msg.meta and ending with a summary (or an engine failure).           *)
(***************************************************************************)
EXTENDS Integers, Sequences, FiniteSets, TLC

\* ------------------------------------------------------------------------
\* Bounds of the model
\* ------------------------------------------------------------------------
\* longest rule list of a rule-set enumerated by InitRun
MaxRules == 2
\* most entries already present in msg.meta.warnings / msg.meta.errors when
\* a message arrives
MaxPrior == 1
\* number of messages (runs) the node handles
MaxRuns == 2
\* most reloads of the locked configuration in flight at once
MaxLoads == 1
\* longest array of rows of a document enumerated by InitRows
MaxRows == 3
\* number of nodes created in SpecWatch
MaxNodes == 2

\* ------------------------------------------------------------------------
\* JSON values.  Every value is a record of the same four fields so that
\* any two values can be compared:
\*   k  the JavaScript kind, s the text of a string, n the number (or 0/1
\*   of a boolean), e the entries of an array or object, in insertion order.
\* ------------------------------------------------------------------------
Undefined == [k |-> "undefined", s |-> "", n |-> 0, e |-> <<>>]
Null == [k |-> "null", s |-> "", n |-> 0, e |-> <<>>]
Str(x) == [k |-> "string", s |-> x, n |-> 0, e |-> <<>>]
Num(i) == [k |-> "number", s |-> "", n |-> i, e |-> <<>>]
Bool(b) == [k |-> "boolean", s |-> "", n |-> IF b THEN 1 ELSE 0, e |-> <<>>]
Entry(key, val) == [key |-> key, val |-> val]
Arr(items) == [k |-> "array", s |-> "", n |-> 0,
               e |-> [i \in 1..Len(items) |-> Entry("", items[i])]]
Obj(entries) == [k |-> "object", s |-> "", n |-> 0, e |-> entries]

\* the elements of an array value
Items(v) == [i \in 1..Len(v.e) |-> v.e[i].val]
\* Object.keys(v)
Keys(v) == [i \in 1..Len(v.e) |-> v.e[i].key]

\* Array.isArray(v)
IsArray(v) == v.k = "array"
\* mutant of IsNullish: v === null
IsNullish_nullOnly(v) == v.k = "null"

\* v == null
IsNullish(v) == v.k \in {"undefined", "null"}
\* JavaScript truthiness (if (keep), if (!w), v ? 1 : 0)
Truthy(v) ==
    CASE v.k \in {"undefined", "null"} -> FALSE
      [] v.k = "boolean" -> v.n = 1
      [] v.k = "number" -> v.n # 0
      [] v.k = "string" -> v.s # ""
      [] OTHER -> TRUE

\* const isObj = (v) => v && typeof v === "object" && !Array.isArray(v)
isObj(v) == v.k = "object"

HasKey(v, key) == \E i \in 1..Len(v.e) : v.e[i].key = key
KeyIndex(v, key) == CHOOSE i \in 1..Len(v.e) : v.e[i].key = key

\* obj[key] of an object value; undefined for anything else
PropOf(v, key) ==
    IF v.k = "object" /\ HasKey(v, key) THEN v.e[KeyIndex(v, key)].val ELSE Undefined

\* the integer-like property names of the model, which JavaScript keeps in
\* ascending order before every other property name
IsIndexKey(key) == key \in {"0", "1", "2", "3"}
IndexOfKey(key) == CASE key = "0" -> 0 [] key = "1" -> 1 [] key = "2" -> 2 [] OTHER -> 3

\* mutant of SetProp: an existing key keeps its value
SetProp_keepFirst(v, key, val) ==
    IF HasKey(v, key) THEN v ELSE [v EXCEPT !.e = Append(v.e, Entry(key, val))]

\* obj[key] = val: an existing key keeps its position; a new integer-like key
\* goes after the smaller integer-like keys; any other new key is appended
SetProp(v, key, val) ==
    IF HasKey(v, key)
    THEN [v EXCEPT !.e[KeyIndex(v, key)] = Entry(key, val)]
    ELSE IF IsIndexKey(key)
    THEN LET before == Cardinality({i \in 1..Len(v.e) :
                            IsIndexKey(v.e[i].key) /\ IndexOfKey(v.e[i].key) < IndexOfKey(key)})
         IN  [v EXCEPT !.e = SubSeq(v.e, 1, before) \o <<Entry(key, val)>>
                                \o SubSeq(v.e, before + 1, Len(v.e))]
    ELSE [v EXCEPT !.e = Append(v.e, Entry(key, val))]

\* ------------------------------------------------------------------------
\* Strings: String(v), trim, toLowerCase, toUpperCase and Number() over the
\* strings the model uses
\* ------------------------------------------------------------------------
NumStr(i) ==
    CASE i = 0 -> "0" [] i = 1 -> "1" [] i = 2 -> "2" [] i = 3 -> "3"
      [] OTHER -> ToString(i)

\* String(v)
JsString(v) ==
    CASE v.k = "string" -> v.s
      [] v.k = "number" -> IF v.s = "NaN" THEN "NaN" ELSE NumStr(v.n)
      [] v.k = "boolean" -> IF v.n = 1 THEN "true" ELSE "false"
      [] v.k = "null" -> "null"
      [] v.k = "undefined" -> "undefined"
      [] v.k = "array" -> IF Len(v.e) = 0 THEN "" ELSE "[array]"
      [] OTHER -> "[object Object]"

Trim(s) ==
    CASE s = " " -> ""
      [] s = " alpha " -> "alpha"
      [] s = " NA " -> "NA"
      [] s = " 1 " -> "1"
      [] OTHER -> s

Lower(s) ==
    CASE s = "NA" -> "na"
      [] s = "N/A" -> "n/a"
      [] s = " NA " -> " na "
      [] s = "Alpha" -> "alpha"
      [] s = "ALPHA" -> "alpha"
      [] OTHER -> s

Upper(s) ==
    CASE s = "na" -> "NA"
      [] s = "n/a" -> "N/A"
      [] s = "alpha" -> "ALPHA"
      [] s = "Alpha" -> "ALPHA"
      [] s = " alpha " -> " ALPHA "
      [] s = "bravo" -> "BRAVO"
      [] OTHER -> s

\* Number(v) is finite for these strings only; [ok |-> FALSE] stands for NaN
ParseNumber(s) ==
    CASE s = "1" -> [ok |-> TRUE, n |-> 1]
      [] s = " 1 " -> [ok |-> TRUE, n |-> 1]
      [] s = "2" -> [ok |-> TRUE, n |-> 2]
      [] s = "0" -> [ok |-> TRUE, n |-> 0]
      [] s = "" -> [ok |-> TRUE, n |-> 0]
      [] s = " " -> [ok |-> TRUE, n |-> 0]
      [] OTHER -> [ok |-> FALSE, n |-> 0]

\* ------------------------------------------------------------------------
\* NA policy and transforms
\* ------------------------------------------------------------------------
\* the values of the default NA policy
DefaultNAValues == {"", "NA", "N/A"}

\* mkNASet(values)(v): the predicate built from the policy's values
mkNASet(values, v) ==
    IF IsNullish(v) THEN TRUE
    ELSE LET s == Trim(JsString(v))
         IN  IF s = "" THEN TRUE
             ELSE Lower(s) \in {Lower(x) : x \in values}

\* isNA of a run: mkNASet when the policy is enabled, () => false otherwise
isNA(policy, v) ==
    IF policy.enabled THEN mkNASet(policy.values, v) ELSE FALSE

\* mutant of normalizeNA: nothing is normalised
normalizeNA_never(policy, v) == v

\* normalizeNA(v, isNA)
normalizeNA(policy, v) == IF isNA(policy, v) THEN Null ELSE v

applyTransform(name, v) ==
    CASE name = "trim" -> IF IsNullish(v) THEN v ELSE Str(Trim(JsString(v)))
      [] name = "lower" -> IF IsNullish(v) THEN v ELSE Str(Lower(JsString(v)))
      [] name = "upper" -> IF IsNullish(v) THEN v ELSE Str(Upper(JsString(v)))
      [] name = "number" ->
            IF IsNullish(v) \/ Trim(JsString(v)) = "" THEN Null
            ELSE IF v.k = "number" THEN (IF v.s = "NaN" THEN Null ELSE v)
            ELSE IF v.k = "boolean" THEN Num(v.n)
            ELSE IF v.k = "string" /\ ParseNumber(v.s).ok THEN Num(ParseNumber(v.s).n)
            ELSE Null
      [] name = "bool01" -> IF Truthy(v) THEN Num(1) ELSE Num(0)
      [] name = "string" -> IF IsNullish(v) THEN Str("") ELSE Str(JsString(v))
      [] OTHER -> v

\* ------------------------------------------------------------------------
\* Stores.  A message, the flow context and the global context each map the
\* paths of the model to a value (Undefined when nothing is stored there).
\* ------------------------------------------------------------------------
\* `extract.${rIndex}`, the output path of a rule that names none
ExtractPath(rIndex) == "extract." \o ToString(rIndex)

PathSeq == <<"data", "payload", "a">> \o [i \in 1..(MaxRules + 1) |-> ExtractPath(i - 1)]
Paths == {PathSeq[i] : i \in 1..Len(PathSeq)}

\* RED.util.getMessageProperty / context.get
StoreGet(store, path) == IF path \in DOMAIN store THEN store[path] ELSE Undefined

\* the message seen as an object (the data root of an expression)
MsgValue(m) ==
    Obj(SelectSeq([i \in 1..Len(PathSeq) |-> Entry(PathSeq[i], m[PathSeq[i]])],
                  LAMBDA en : en.val # Undefined))

\* ------------------------------------------------------------------------
\* Expression evaluation.  Results are [ok |-> TRUE, v |-> value], or
\* [ok |-> FALSE, v |-> Undefined] when the evaluation throws / rejects.
\* ------------------------------------------------------------------------
Ok(v) == [ok |-> TRUE, v |-> v]
Throws == [ok |-> FALSE, v |-> Undefined]

\* an expression that does not compile
FailExpr == "$error("
\* $number(age): rejects when age is a string that is no number
NumberExpr == "$number(age)"

NaN == [k |-> "number", s |-> "NaN", n |-> 0, e |-> <<>>]

\* jsonataEval(node, expr, data): undefined for an empty expression; a
\* rejected promise when the expression does not compile or fails at run
\* time; the expressions of the model are FailExpr, NumberExpr and the name
\* of a property of the data
jsonataEval(expr, data) ==
    CASE expr = "" -> Ok(Undefined)
      [] expr = FailExpr -> Throws
      [] expr = NumberExpr ->
            LET age == PropOf(data, "age")
            IN  CASE age.k = "number" -> Ok(age)
                  [] age.k = "boolean" -> Ok(Num(age.n))
                  [] age.k = "string" ->
                        IF ParseNumber(age.s).ok /\ Trim(age.s) # ""
                        THEN Ok(Num(ParseNumber(age.s).n)) ELSE Throws
                  [] age.k = "undefined" -> Ok(Undefined)
                  [] OTHER -> Throws
      [] OTHER -> Ok(PropOf(data, expr))

\* process.env[src] || ""
EnvGet(src) == IF src = "MODE" THEN Str("alpha") ELSE Str("")

\* JSON.parse(src), undefined when it throws
ParseJson(src) ==
    CASE src = "1" -> Num(1)
      [] src = "null" -> Null
      [] src = "true" -> Bool(TRUE)
      [] src = "[]" -> Arr(<<>>)
      [] OTHER -> Undefined

\* { ...rowCtx, msg }
MergeCtx(rowCtx, m) ==
    SetProp(IF rowCtx.k = "object" THEN rowCtx ELSE Obj(<<>>), "msg", MsgValue(m))

\* evalTyped(node, msg, type, src, rowCtx); fl and gl are the flow and the
\* global context
evalTyped(m, fl, gl, type, src, rowCtx) ==
    CASE type = "msg" -> Ok(StoreGet(m, src))
      [] type = "flow" -> Ok(StoreGet(fl, src))
      [] type = "global" -> Ok(StoreGet(gl, src))
      [] type = "env" -> Ok(EnvGet(src))
      [] type = "path" ->
            Ok(PropOf(IF IsNullish(rowCtx) THEN MsgValue(m) ELSE rowCtx, src))
      [] type = "jsonata" ->
            jsonataEval(src, IF IsNullish(rowCtx) THEN MsgValue(m)
                             ELSE MergeCtx(rowCtx, m))
      [] type = "str" -> Ok(Str(src))
      [] type = "num" ->
            Ok(IF ParseNumber(src).ok THEN Num(ParseNumber(src).n) ELSE NaN)
      [] type = "bool" -> Ok(Bool(src # ""))
      [] type = "json" -> Ok(ParseJson(src))
      [] OTHER -> Ok(Str(src))

\* a || b for configuration strings ("" stands for an unset field)
OrElse(a, b) == IF a = "" THEN b ELSE a

\* ------------------------------------------------------------------------
\* The stages of one rule.  A stage returns its result together with the
\* warnings it pushes, in order.  env is the evaluation environment of the
\* run: [m, fl, gl] the stores, [policy] the NA policy, [tag] the rule's tag.
\* ------------------------------------------------------------------------
\* `[rule:${rule.name || rIndex}]`
RuleTag(rule, rIndex) == "[rule:" \o OrElse(rule.name, ToString(rIndex)) \o "]"

\* an entry of msg.meta.warnings / msg.meta.errors
Note(tag, text) == [tag |-> tag, text |-> text]

Eval(env, type, src, rowCtx) == evalTyped(env.m, env.fl, env.gl, type, src, rowCtx)

\* 1) SELECT scope, evaluated against the source root
SelectScope(rule, root) ==
    CASE rule.selectType = "jsonata" -> jsonataEval(rule.select, root)
      [] rule.selectType = "path" -> Ok(PropOf(root, rule.select))
      [] OTHER -> Ok(root)

\* mutant of FilterRows: a row whose gate throws is kept
FilterRows_keepsThrowing(rule, scope, env) ==
    IF rule.filter = "" THEN [rows |-> scope, warns |-> <<>>]
    ELSE LET gate == [i \in 1..Len(scope) |->
                        [row |-> scope[i],
                         r |-> Eval(env, OrElse(rule.filterType, "jsonata"),
                                    rule.filter, scope[i])]]
             kept == SelectSeq(gate, LAMBDA g : ~g.r.ok \/ Truthy(g.r.v))
             bad == SelectSeq(gate, LAMBDA g : ~g.r.ok)
         IN  [rows |-> [i \in 1..Len(kept) |-> kept[i].row],
              warns |-> [i \in 1..Len(bad) |-> Note(env.tag, "filter error on row")]]

\* 2) FILTER: the rows whose gate is truthy, a warning for each row whose
\*    gate throws
FilterRows(rule, scope, env) ==
    IF rule.filter = "" THEN [rows |-> scope, warns |-> <<>>]
    ELSE LET gate == [i \in 1..Len(scope) |->
                        [row |-> scope[i],
                         r |-> Eval(env, OrElse(rule.filterType, "jsonata"),
                                    rule.filter, scope[i])]]
             kept == SelectSeq(gate, LAMBDA g : g.r.ok /\ Truthy(g.r.v))
             bad == SelectSeq(gate, LAMBDA g : ~g.r.ok)
         IN  [rows |-> [i \in 1..Len(kept) |-> kept[i].row],
              warns |-> [i \in 1..Len(bad) |-> Note(env.tag, "filter error on row")]]

\* mutant of MapField: the transform is applied before the NA normalisation
MapField_transformFirst(mf, row, acc, env) ==
    LET w == IF mf.when = "" THEN Ok(Bool(TRUE))
             ELSE Eval(env, OrElse(mf.whenType, "jsonata"), mf.when, row)
        r == Eval(env, OrElse(mf.srcType, "jsonata"), mf.src, row)
        v == normalizeNA(env.policy, applyTransform(OrElse(mf.transform, "none"), r.v))
    IN  IF ~w.ok THEN [acc EXCEPT !.warns = Append(@, Note(env.tag, "when error"))]
        ELSE IF ~Truthy(w.v) THEN acc
        ELSE IF ~r.ok THEN [acc EXCEPT !.warns = Append(@, Note(env.tag, "map error"))]
        ELSE IF mf.key = "" THEN acc
        ELSE [acc EXCEPT !.rec = SetProp(@, mf.key, v)]

\* one map field applied to the record under construction
MapField(mf, row, acc, env) ==
    LET w == IF mf.when = "" THEN Ok(Bool(TRUE))
             ELSE Eval(env, OrElse(mf.whenType, "jsonata"), mf.when, row)
        r == Eval(env, OrElse(mf.srcType, "jsonata"), mf.src, row)
        v == applyTransform(OrElse(mf.transform, "none"), normalizeNA(env.policy, r.v))
    IN  IF ~w.ok THEN [acc EXCEPT !.warns = Append(@, Note(env.tag, "when error"))]
        ELSE IF ~Truthy(w.v) THEN acc
        ELSE IF ~r.ok THEN [acc EXCEPT !.warns = Append(@, Note(env.tag, "map error"))]
        ELSE IF mf.key = "" THEN acc
        ELSE [acc EXCEPT !.rec = SetProp(@, mf.key, v)]

RECURSIVE MapFields(_, _, _, _, _)
MapFields(maps, j, row, acc, env) ==
    IF j > Len(maps) THEN acc
    ELSE MapFields(maps, j + 1, row, MapField(maps[j], row, acc, env), env)

\* 3) MAP: the rows themselves when no field is configured, else one record
\*    per row
MapRows(rule, rows, env) ==
    IF Len(rule.map) = 0 THEN [mapped |-> rows, warns |-> <<>>]
    ELSE LET per == [i \in 1..Len(rows) |->
                       MapFields(rule.map, 1, rows[i],
                                 [rec |-> Obj(<<>>), warns |-> <<>>], env)]
             RECURSIVE Cat(_)
             Cat(i) == IF i > Len(rows) THEN <<>> ELSE per[i].warns \o Cat(i + 1)
         IN  [mapped |-> [i \in 1..Len(rows) |-> per[i].rec], warns |-> Cat(1)]

\* aggregate.mode || "array"
ModeOf(rule) == OrElse(rule.aggregate.mode, "array")

RECURSIVE ByKey(_, _, _, _, _)
ByKey(agg, mapped, i, acc, env) ==
    IF i > Len(mapped) THEN acc
    ELSE LET k == Eval(env, OrElse(agg.keyExprType, "jsonata"), agg.keyExpr, mapped[i])
             key == JsString(IF IsNullish(k.v) THEN Str("") ELSE k.v)
         IN  ByKey(agg, mapped, i + 1,
                   IF k.ok THEN [acc EXCEPT !.obj = SetProp(@, key, mapped[i])]
                   ELSE [acc EXCEPT !.warns =
                            Append(@, Note(env.tag, "objectByKey keyExpr error"))],
                   env)

\* the first character of a string row (Object.keys of a string are indices)
FirstChar(s) ==
    CASE s = "" -> Undefined
      [] s \in {" ", " alpha ", " NA ", " 1 "} -> Str(" ")
      [] s \in {"alpha"} -> Str("a")
      [] s \in {"NA", "N/A"} -> Str("N")
      [] OTHER -> Str("?")

\* keys = Object.keys(row); v = keys.length ? row[keys[0]] : undefined
FirstValue(row) ==
    CASE IsNullish(row) -> Throws
      [] row.k \in {"object", "array"} ->
            Ok(IF Len(row.e) = 0 THEN Undefined ELSE row.e[1].val)
      [] row.k = "string" -> Ok(FirstChar(row.s))
      [] OTHER -> Ok(Undefined)

RECURSIVE SetOf(_, _, _, _, _)
SetOf(agg, mapped, i, acc, env) ==
    IF i > Len(mapped) THEN acc
    ELSE LET r == IF agg.valueExpr # ""
                  THEN Eval(env, OrElse(agg.valueExprType, "jsonata"),
                            agg.valueExpr, mapped[i])
                  ELSE FirstValue(mapped[i])
             v == normalizeNA(env.policy, r.v)
             str == JsString(v)
         IN  SetOf(agg, mapped, i + 1,
                   IF ~r.ok
                   THEN [acc EXCEPT !.warns =
                            Append(@, Note(env.tag, "set valueExpr error"))]
                   ELSE IF ~IsNullish(v) /\ Trim(str) # ""
                           /\ \A j \in 1..Len(acc.out) : acc.out[j] # Str(str)
                   THEN [acc EXCEPT !.out = Append(@, Str(str))]
                   ELSE acc,
                   env)

\* mutant of Aggregate: mode first reads mapped[0] without looking at the
\* length
Aggregate_firstUnchecked(rule, mapped, env) ==
    LET mode == ModeOf(rule)
    IN  CASE mode = "first" ->
                [result |-> IF Len(mapped) > 0 THEN mapped[1] ELSE Undefined, warns |-> <<>>]
          [] mode = "count" -> [result |-> Num(Len(mapped)), warns |-> <<>>]
          [] mode = "objectByKey" ->
                LET acc == ByKey(rule.aggregate, mapped, 1,
                                 [obj |-> Obj(<<>>), warns |-> <<>>], env)
                IN  [result |-> acc.obj, warns |-> acc.warns]
          [] mode = "set" ->
                LET acc == SetOf(rule.aggregate, mapped, 1,
                                 [out |-> <<>>, warns |-> <<>>], env)
                IN  [result |-> Arr(acc.out), warns |-> acc.warns]
          [] OTHER -> [result |-> Arr(mapped), warns |-> <<>>]

\* 4) AGGREGATE
Aggregate(rule, mapped, env) ==
    LET mode == ModeOf(rule)
    IN  CASE mode = "array" -> [result |-> Arr(mapped), warns |-> <<>>]
          [] mode = "first" ->
                [result |-> IF Len(mapped) > 0 THEN mapped[1] ELSE Null, warns |-> <<>>]
          [] mode = "count" -> [result |-> Num(Len(mapped)), warns |-> <<>>]
          [] mode = "objectByKey" ->
                LET acc == ByKey(rule.aggregate, mapped, 1,
                                 [obj |-> Obj(<<>>), warns |-> <<>>], env)
                IN  [result |-> acc.obj, warns |-> acc.warns]
          [] mode = "set" ->
                LET acc == SetOf(rule.aggregate, mapped, 1,
                                 [out |-> <<>>, warns |-> <<>>], env)
                IN  [result |-> Arr(acc.out), warns |-> acc.warns]
          [] OTHER -> [result |-> Arr(mapped), warns |-> <<>>]

\* 6) the emptiness of a result, by mode
IsEmpty(mode, result) ==
    CASE mode = "count" -> result = Num(0)
      [] mode = "first" -> IsNullish(result)
      [] IsArray(result) -> Len(result.e) = 0
      [] isObj(result) -> Len(result.e) = 0
      [] OTHER -> IsNullish(result)

\* ------------------------------------------------------------------------
\* State
\* ------------------------------------------------------------------------
VARIABLES
    nodeCfg,    \* node.source, node.naPolicy, node.rules (the editor's configuration)
    lockedCfg,  \* the closure variable lockedCfg: [set |-> FALSE] is null
    file,       \* the config file: [kind |-> "missing" | "invalid" | "json", cfg]
    boot,       \* "loading" until the constructor's own load has settled
    watching,   \* whether the node's fs.watch callback is installed
    loads,      \* the reloads started by the watch callback and still in flight
    flow,       \* node.context().flow
    global,     \* node.context().global
    watchers,   \* the module's watchers map: per path, [open, count]
    nodes,      \* per node of SpecWatch: its config-file fields and life cycle
    run         \* per message: the state of the input handler working on it

vars == <<nodeCfg, lockedCfg, file, boot, watching, loads, flow, global, watchers,
         nodes, run>>

Runs == 1..MaxRuns

NoCfg == [source |-> [type |-> "", path |-> ""],
          naPolicy |-> [enabled |-> FALSE, hasValues |-> FALSE, values |-> {}],
          rules |-> <<>>]

EmptyStore == [p \in Paths |-> Undefined]

\* the handler's locals and its message; pc is the handler's position:
\*   "none" no message, "arrived" before the handler runs, "root" awaiting
\*   the source expression, "select" .. "output" the stage about to run for
\*   rule rIndex, "summary" after the loop, "done" after send/done(),
\*   "failed" after done(err).
\* log and writes are history: the stages executed (with the rule read from
\* the run's configuration, what the stage produced and how it ended) and
\* the writes performed.
IdleRun ==
    [pc |-> "none", msg |-> EmptyStore,
     warnings |-> [has |-> FALSE, list |-> <<>>],
     errors |-> [has |-> FALSE, list |-> <<>>],
     cfg |-> NoCfg, root |-> [isMsg |-> TRUE, v |-> Undefined],
     policy |-> [enabled |-> FALSE, values |-> {}],
     rIndex |-> 0, sel |-> Ok(Undefined), scope |-> <<>>, rows |-> <<>>,
     mapped |-> <<>>, result |-> Undefined,
     ruleOK |-> 0, ruleWarn |-> 0, ruleErr |-> 0,
     summary |-> [has |-> FALSE, ok |-> FALSE, rules |-> 0, okc |-> 0, warn |-> 0, err |-> 0],
     status |-> "", sent |-> FALSE, done |-> "", stopped |-> FALSE,
     log |-> <<>>, writes |-> <<>>]

\* ------------------------------------------------------------------------
\* The input handler
\* ------------------------------------------------------------------------
\* const runCfg = lockedCfg || { source: node.source, ... }
EffectiveCfg == IF lockedCfg.set THEN lockedCfg.cfg ELSE nodeCfg

\* mutant of CurrentRule: the rule is read from the configuration in force
\* now (lockedCfg.rules[rIndex], undefined past its end) instead of the run's
CurrentRule_live(rec) ==
    IF rec.rIndex + 1 <= Len(EffectiveCfg.rules)
    THEN EffectiveCfg.rules[rec.rIndex + 1]
    ELSE [rec.cfg.rules[rec.rIndex + 1] EXCEPT !.isNull = TRUE]

\* the rule the loop body works on: runCfg.rules[rIndex]
CurrentRule(rec) == rec.cfg.rules[rec.rIndex + 1]

\* the source root as the expressions see it now: the message itself when
\* the root is the message, else the value resolved at the start
RootValue(rec) == IF rec.root.isMsg THEN MsgValue(rec.msg) ELSE rec.root.v

\* isNA: mkNASet(values || default) when the policy is enabled
PolicyOf(cfg) ==
    [enabled |-> cfg.naPolicy.enabled,
     values |-> IF cfg.naPolicy.hasValues THEN cfg.naPolicy.values ELSE DefaultNAValues]

\* mutant of EnvOf: expressions read the node's own context, where the
\* flow's keys are not set
EnvOf_nodeContext(rec) ==
    [m |-> rec.msg, fl |-> EmptyStore, gl |-> global, policy |-> rec.policy,
     tag |-> RuleTag(CurrentRule(rec), rec.rIndex)]

\* what the stages pass to evalTyped: node (its contexts), msg, and the
\* loop's isNA and tag
EnvOf(rec) ==
    [m |-> rec.msg, fl |-> flow, gl |-> global, policy |-> rec.policy,
     tag |-> RuleTag(CurrentRule(rec), rec.rIndex)]

\* mutant of PushWarns: the notes land on the errors list
PushWarns_asErrors(rec, notes) == [rec EXCEPT !.errors.list = @ \o notes]

\* warnings.push / errors.push
PushWarns(rec, notes) == [rec EXCEPT !.warnings.list = @ \o notes]
PushError(rec, note) == [rec EXCEPT !.errors.list = Append(@, note)]

Logged(rec, stage, info, val) ==
    [rec EXCEPT !.log = Append(@, [rIndex |-> rec.rIndex, stage |-> stage,
                                   rule |-> CurrentRule(rec), info |-> info,
                                   val |-> val])]

\* mutant of EngineFailure: the catch completes the message as handled
EngineFailure_swallowed(rec, message) ==
    [PushError(rec, Note("[engine]", message))
        EXCEPT !.pc = "failed", !.status = "red-ring", !.done = "ok", !.sent = TRUE]

\* the catch of the handler: one [engine] entry, red ring, done(err)
EngineFailure(rec, message) ==
    [PushError(rec, Note("[engine]", message))
        EXCEPT !.pc = "failed", !.status = "red-ring", !.done = "err"]

\* the loop header after a rule: rIndex++ and the test against rules.length
NextRule(rec) ==
    [rec EXCEPT !.rIndex = @ + 1,
                !.pc = IF rec.rIndex + 1 < Len(rec.cfg.rules) THEN "select" ELSE "summary"]

\* mutants of OnError: the policy is ignored
OnError_neverStops(rec) == NextRule(rec)
OnError_alwaysStops(rec) == [rec EXCEPT !.pc = "summary", !.stopped = TRUE]

\* if (rule.onError === "stop") break; else continue;
OnError(rec) ==
    IF CurrentRule(rec).onError = "stop"
    THEN [rec EXCEPT !.pc = "summary", !.stopped = TRUE]
    ELSE NextRule(rec)

\* the source root of a configuration whose source is no expression
SourceRoot(cfg, m) ==
    CASE cfg.source.type \in {"", "msg"} ->
            IF cfg.source.path # "" THEN [isMsg |-> FALSE, v |-> StoreGet(m, cfg.source.path)]
            ELSE [isMsg |-> TRUE, v |-> Undefined]
      [] cfg.source.type = "flow" -> [isMsg |-> FALSE, v |-> StoreGet(flow, cfg.source.path)]
      [] cfg.source.type = "global" -> [isMsg |-> FALSE, v |-> StoreGet(global, cfg.source.path)]
      [] cfg.source.type = "path" ->
            [isMsg |-> FALSE, v |-> PropOf(MsgValue(m), cfg.source.path)]
      [] OTHER -> [isMsg |-> TRUE, v |-> Undefined]

\* from the resolved root to the loop: isNA, the counters, rIndex = 0
EnterLoop(rec, root) ==
    [rec EXCEPT !.root = root, !.policy = PolicyOf(rec.cfg),
                !.ruleOK = 0, !.ruleWarn = 0, !.ruleErr = 0, !.rIndex = 0,
                !.pc = IF Len(rec.cfg.rules) > 0 THEN "select" ELSE "summary"]

\* mutant of EnsureList: the list is created afresh
EnsureList_fresh(l) == [has |-> TRUE, list |-> <<>>]

\* meta.warnings ||= [] / meta.errors ||= []
EnsureList(l) == IF l.has THEN l ELSE [has |-> TRUE, list |-> <<>>]

\* the handler starts: meta, warnings and errors are created when missing,
\* the effective configuration is fixed, the root is resolved (or awaited
\* when the source is an expression)
Start(r) ==
    /\ run[r].pc = "arrived"
    /\ LET rec == [run[r] EXCEPT !.warnings = EnsureList(@), !.errors = EnsureList(@),
                                 !.cfg = EffectiveCfg]
       IN  run' = [run EXCEPT ![r] =
                     IF rec.cfg.source.type = "jsonata"
                     THEN [rec EXCEPT !.pc = "root"]
                     ELSE EnterLoop(rec, SourceRoot(rec.cfg, rec.msg))]
    /\ UNCHANGED <<watchers, nodes, nodeCfg, lockedCfg, file, boot, watching, loads, flow, global>>

\* root = await jsonataEval(node, runCfg.source.path || "", msg)
ResolveRoot(r) ==
    /\ run[r].pc = "root"
    /\ LET rec == run[r]
           res == jsonataEval(rec.cfg.source.path, MsgValue(rec.msg))
       IN  run' = [run EXCEPT ![r] =
                     IF res.ok THEN EnterLoop(rec, [isMsg |-> FALSE, v |-> res.v])
                     ELSE EngineFailure(rec, "source expression failed")]
    /\ UNCHANGED <<watchers, nodes, nodeCfg, lockedCfg, file, boot, watching, loads, flow, global>>

\* 1) SELECT of rule rIndex (with the loop body's first lines: a rule that
\*    is null makes rule.name throw, outside the per-rule try)
Select(r) ==
    /\ run[r].pc = "select"
    /\ LET rec == run[r]
           rule == CurrentRule(rec)
           tag == RuleTag(rule, rec.rIndex)
           sel == SelectScope(rule, RootValue(rec))
           failed == ~sel.ok \/ (~IsArray(sel.v) /\ ~IsNullish(sel.v))
           got == [Logged(rec, "select", IF failed THEN "failed" ELSE "ok", sel.v)
                     EXCEPT !.sel = sel]
       IN  run' = [run EXCEPT ![r] =
                     IF rule.isNull
                     THEN EngineFailure(rec, "Cannot read properties of null")
                     ELSE IF ~sel.ok
                     THEN OnError([PushError(got, Note(tag, "select evaluation failed"))
                                     EXCEPT !.ruleErr = @ + 1])
                     ELSE IF IsArray(sel.v)
                     THEN [got EXCEPT !.scope = Items(sel.v), !.pc = "filter"]
                     ELSE IF IsNullish(sel.v)
                     THEN [got EXCEPT !.scope = <<>>, !.pc = "filter"]
                     ELSE OnError([PushError(got, Note(tag, "select did not resolve to an array"))
                                     EXCEPT !.ruleErr = @ + 1])]
    /\ UNCHANGED <<watchers, nodes, nodeCfg, lockedCfg, file, boot, watching, loads, flow, global>>

\* 2) FILTER
Filter(r) ==
    /\ run[r].pc = "filter"
    /\ LET rec == run[r]
           f == FilterRows(CurrentRule(rec), rec.scope, EnvOf(rec))
       IN  run' = [run EXCEPT ![r] =
                     [PushWarns(Logged(rec, "filter", "", Arr(f.rows)), f.warns)
                        EXCEPT !.rows = f.rows, !.pc = "map"]]
    /\ UNCHANGED <<watchers, nodes, nodeCfg, lockedCfg, file, boot, watching, loads, flow, global>>

\* 3) MAP
Map(r) ==
    /\ run[r].pc = "map"
    /\ LET rec == run[r]
           mp == MapRows(CurrentRule(rec), rec.rows, EnvOf(rec))
       IN  run' = [run EXCEPT ![r] =
                     [PushWarns(Logged(rec, "map", "", Arr(mp.mapped)), mp.warns)
                        EXCEPT !.mapped = mp.mapped, !.pc = "aggregate"]]
    /\ UNCHANGED <<watchers, nodes, nodeCfg, lockedCfg, file, boot, watching, loads, flow, global>>

\* 4) AGGREGATE
AggregateStage(r) ==
    /\ run[r].pc = "aggregate"
    /\ LET rec == run[r]
           ag == Aggregate(CurrentRule(rec), rec.mapped, EnvOf(rec))
       IN  run' = [run EXCEPT ![r] =
                     [PushWarns(Logged(rec, "aggregate", "", ag.result), ag.warns)
                        EXCEPT !.result = ag.result, !.pc = "output"]]
    /\ UNCHANGED <<watchers, nodes, nodeCfg, lockedCfg, file, boot, watching, loads, flow, global>>

\* (rule.output && rule.output.type) || "msg"
OutType(rule) == OrElse(rule.output.type, "msg")

\* mutant of OutPath: the configured path is ignored
OutPath_alwaysDefault(rule, rIndex) == ExtractPath(rIndex)

\* (rule.output && rule.output.path) || `extract.${rIndex}`
OutPath(rule, rIndex) == OrElse(rule.output.path, ExtractPath(rIndex))

\* mutant of setTypedTarget: a location that holds a value is left alone
setTypedTarget_keepExisting(m, fl, gl, type, path, value) ==
    IF path = "" THEN [m |-> m, fl |-> fl, gl |-> gl]
    ELSE IF type = "flow"
    THEN [m |-> m, fl |-> IF fl[path] = Undefined THEN [fl EXCEPT ![path] = value] ELSE fl,
          gl |-> gl]
    ELSE IF type = "global"
    THEN [m |-> m, fl |-> fl,
          gl |-> IF gl[path] = Undefined THEN [gl EXCEPT ![path] = value] ELSE gl]
    ELSE [m |-> IF m[path] = Undefined THEN [m EXCEPT ![path] = value] ELSE m,
          fl |-> fl, gl |-> gl]

\* setTypedTarget(node, msg, type, path, value): the three stores after it
setTypedTarget(m, fl, gl, type, path, value) ==
    IF path = "" THEN [m |-> m, fl |-> fl, gl |-> gl]
    ELSE IF type = "flow" THEN [m |-> m, fl |-> [fl EXCEPT ![path] = value], gl |-> gl]
    ELSE IF type = "global" THEN [m |-> m, fl |-> fl, gl |-> [gl EXCEPT ![path] = value]]
    ELSE [m |-> [m EXCEPT ![path] = value], fl |-> fl, gl |-> gl]

\* mutant of EmptyHandling: only onEmpty = "error" is told apart, so an
\* accepted empty result is warned about
EmptyHandling_okWarns(rec) ==
    LET rule == CurrentRule(rec)
        tag == RuleTag(rule, rec.rIndex)
    IN  IF IsEmpty(ModeOf(rule), rec.result)
        THEN IF rule.onEmpty = "error"
             THEN [PushError(rec, Note(tag, "produced empty result")) EXCEPT !.ruleErr = @ + 1]
             ELSE [PushWarns(rec, <<Note(tag, "produced empty result")>>)
                     EXCEPT !.ruleWarn = @ + 1]
        ELSE [rec EXCEPT !.ruleOK = @ + 1]

\* 6) empty handling: the rule's outcome
EmptyHandling(rec) ==
    LET rule == CurrentRule(rec)
        tag == RuleTag(rule, rec.rIndex)
    IN  IF IsEmpty(ModeOf(rule), rec.result)
        THEN IF rule.onEmpty = "error"
             THEN [PushError(rec, Note(tag, "produced empty result")) EXCEPT !.ruleErr = @ + 1]
             ELSE IF rule.onEmpty \in {"warn", ""}
             THEN [PushWarns(rec, <<Note(tag, "produced empty result")>>)
                     EXCEPT !.ruleWarn = @ + 1]
             ELSE [rec EXCEPT !.ruleOK = @ + 1]
        ELSE [rec EXCEPT !.ruleOK = @ + 1]

\* 5) OUTPUT and 6) empty handling, then the next rule
Output(r) ==
    /\ run[r].pc = "output"
    /\ LET rec == run[r]
           rule == CurrentRule(rec)
           type == OutType(rule)
           path == OutPath(rule, rec.rIndex)
           st == setTypedTarget(rec.msg, flow, global, type, path, rec.result)
           wrote == [rec EXCEPT !.msg = st.m,
                                !.writes = Append(@, [rIndex |-> rec.rIndex, type |-> type,
                                                      path |-> path, val |-> rec.result])]
           ended == EmptyHandling(wrote)
           outcome == IF ended.ruleErr > rec.ruleErr THEN "err"
                      ELSE IF ended.ruleWarn > rec.ruleWarn THEN "warn"
                      ELSE IF ended.ruleOK > rec.ruleOK THEN "ok" ELSE ""
       IN  /\ run' = [run EXCEPT ![r] = NextRule(Logged(ended, "output", outcome, rec.result))]
           /\ flow' = st.fl
           /\ global' = st.gl
    /\ UNCHANGED <<watchers, nodes, nodeCfg, lockedCfg, file, boot, watching, loads>>

\* the summary object as a value (timings.ms, a clock difference, is left 0)
SummaryValue(sm) ==
    Obj(<<Entry("ok", Bool(sm.ok)), Entry("step", Str("json-extract-rules")),
          Entry("counts", Obj(<<Entry("rules", Num(sm.rules)), Entry("ok", Num(sm.okc)),
                                Entry("warn", Num(sm.warn)), Entry("err", Num(sm.err))>>)),
          Entry("timings", Obj(<<Entry("ms", Num(0))>>))>>)

Summary(rec) ==
    [has |-> TRUE, ok |-> Len(rec.errors.list) = 0, rules |-> Len(rec.cfg.rules),
     okc |-> rec.ruleOK, warn |-> rec.ruleWarn + Len(rec.warnings.list),
     err |-> rec.ruleErr + Len(rec.errors.list)]

\* mutant of StatusOf: the warnings are looked at first
StatusOf_warnFirst(sm) ==
    IF sm.warn > 0 THEN "yellow-dot" ELSE IF sm.err > 0 THEN "red-dot" ELSE "green-dot"

\* node.status after the summary: red dot (has-errors), yellow dot
\* (has-warnings), green dot (all-ok); the catch sets the red ring (fatal)
StatusOf(sm) ==
    IF sm.err > 0 THEN "red-dot" ELSE IF sm.warn > 0 THEN "yellow-dot" ELSE "green-dot"

\* after the loop: summary, msg.payload, status, send(msg), done()
Finish(r) ==
    /\ run[r].pc = "summary"
    /\ LET rec == run[r]
           sm == Summary(rec)
       IN  run' = [run EXCEPT ![r] =
                     [rec EXCEPT !.summary = sm, !.msg["payload"] = SummaryValue(sm),
                                 !.status = StatusOf(sm), !.sent = TRUE, !.done = "ok",
                                 !.pc = "done"]]
    /\ UNCHANGED <<watchers, nodes, nodeCfg, lockedCfg, file, boot, watching, loads, flow, global>>

Handler(r) ==
    \/ Start(r)
    \/ ResolveRoot(r)
    \/ Select(r)
    \/ Filter(r)
    \/ Map(r)
    \/ AggregateStage(r)
    \/ Output(r)
    \/ Finish(r)

\* ------------------------------------------------------------------------
\* The locked configuration: load, watch, reload
\* ------------------------------------------------------------------------
\* a load that takes every failure for a missing file
Loaded_clearsOnFailure(c, old) ==
    IF c.kind = "json" THEN [set |-> TRUE, cfg |-> c.cfg] ELSE [set |-> FALSE, cfg |-> NoCfg]

\* what `lockedCfg = cfg || null` leaves after readJsonIfExists has read
\* content c: "json" is a configuration object, "falsy" a file whose JSON
\* is null, false, 0 or "", "missing" a file that is not there (ENOENT gives
\* null); an unreadable file or one that is not JSON ("invalid") makes the
\* load throw and assigns nothing
Loaded(c, old) ==
    CASE c.kind = "json" -> [set |-> TRUE, cfg |-> c.cfg]
      [] c.kind = "missing" -> [set |-> FALSE, cfg |-> NoCfg]
      [] c.kind = "falsy" -> [set |-> FALSE, cfg |-> NoCfg]
      [] OTHER -> old

\* loadLockedConfigIfNeeded().finally(startWatchingIfNeeded): the load of
\* the constructor settles, then fs.watch is installed (it throws, and is
\* ignored, when the file is not there)
BootLoad ==
    /\ boot = "loading"
    /\ boot' = "ready"
    /\ lockedCfg' = Loaded(file, lockedCfg)
    /\ watching' = (file.kind # "missing")
    /\ UNCHANGED <<watchers, nodes, nodeCfg, file, loads, flow, global, run>>

\* the file is written, replaced or removed; the watch callback, when
\* installed, calls loadLockedConfigIfNeeded, which awaits the read
FileChange(c) ==
    /\ c # file
    /\ file' = c
    /\ IF watching /\ loads < MaxLoads THEN loads' = loads + 1 ELSE UNCHANGED loads
    /\ watching => loads < MaxLoads
    /\ UNCHANGED <<watchers, nodes, nodeCfg, lockedCfg, boot, watching, flow, global, run>>

\* a reload's read completes (the file is read as it is at that moment)
ReloadDone ==
    /\ loads > 0
    /\ loads' = loads - 1
    /\ lockedCfg' = Loaded(file, lockedCfg)
    /\ UNCHANGED <<watchers, nodes, nodeCfg, file, boot, watching, flow, global, run>>

\* ------------------------------------------------------------------------
\* The shared file watchers (watchers, startWatchingIfNeeded, stopWatching)
\* ------------------------------------------------------------------------
\* the config paths of the model; "" is the unset path
WatchPaths == {"a.json", "b.json"}
NodeIds == 1..MaxNodes

\* watchers.get(abs) is undefined: no entry; owner is the node whose
\* startWatchingIfNeeded called fs.watch, the node of the callback's closure
NoEntry == [open |-> FALSE, count |-> 0, owner |-> 0]
NoWatchers == [p \in WatchPaths |-> NoEntry]

\* a node that is not created; phase is "absent", "loading" (constructed,
\* the load of the constructor not settled) or "started" (its
\* startWatchingIfNeeded has run); registered: this node's
\* startWatchingIfNeeded incremented a count; lockedCfg: the node's own
\* snapshot; pending: its loadLockedConfigIfNeeded calls awaiting the read
NoNode ==
    [phase |-> "absent", closed |-> FALSE, registered |-> FALSE,
     useConfigFile |-> FALSE, watchFile |-> FALSE, lockToFile |-> FALSE,
     configPath |-> "", lockedCfg |-> [set |-> FALSE, cfg |-> NoCfg], pending |-> 0]
NoNodes == [n \in NodeIds |-> NoNode]

\* the config-file fields of the nodes of the model
WatchCfgs ==
    {[useConfigFile |-> u, watchFile |-> w, lockToFile |-> TRUE, configPath |-> "a.json"] :
        u, w \in BOOLEAN}
    \cup {[useConfigFile |-> TRUE, watchFile |-> TRUE, lockToFile |-> TRUE,
           configPath |-> "b.json"],
          [useConfigFile |-> TRUE, watchFile |-> TRUE, lockToFile |-> TRUE,
           configPath |-> ""]}

\* ensureJsonExt(p) does not throw
ensureJsonExt(path) == path \in WatchPaths

\* new JsonExtractRules(config): the fields are set and the load starts
CreateNode(n, c) ==
    /\ nodes[n].phase = "absent"
    /\ nodes' = [nodes EXCEPT ![n] =
                   [NoNode EXCEPT !.phase = "loading", !.useConfigFile = c.useConfigFile,
                                  !.watchFile = c.watchFile, !.lockToFile = c.lockToFile,
                                  !.configPath = c.configPath]]
    /\ UNCHANGED <<nodeCfg, lockedCfg, file, boot, watching, loads, flow, global, watchers,
                   run>>

\* the snapshot of node nd after its loadLockedConfigIfNeeded has read
\* content c: none without useConfigFile and lockToFile, untouched when
\* ensureJsonExt or the read throws
loadLockedConfigIfNeeded(nd, c) ==
    IF ~nd.useConfigFile \/ ~nd.lockToFile THEN [set |-> FALSE, cfg |-> NoCfg]
    ELSE IF ~ensureJsonExt(nd.configPath) THEN nd.lockedCfg
    ELSE Loaded(c, nd.lockedCfg)

\* loadLockedConfigIfNeeded().finally(startWatchingIfNeeded) of node n: the
\* load of the constructor settles on content c, then
\* startWatchingIfNeeded runs (the node closed or not); fs.watch throws
\* when the file is not there
startWatchingIfNeeded(n, c) ==
    /\ nodes[n].phase = "loading"
    /\ LET nd == nodes[n]
           path == nd.configPath
           registers ==
              /\ nd.useConfigFile /\ nd.watchFile
              /\ ensureJsonExt(path)
              /\ watchers[path].open \/ c.kind # "missing"
       IN  /\ nodes' = [nodes EXCEPT ![n].phase = "started", ![n].registered = registers,
                                     ![n].lockedCfg = loadLockedConfigIfNeeded(nd, c)]
           /\ watchers' = IF registers
                          THEN [watchers EXCEPT ![path] =
                                  [open |-> TRUE, count |-> watchers[path].count + 1,
                                   owner |-> IF watchers[path].open
                                             THEN watchers[path].owner ELSE n]]
                          ELSE watchers
    /\ UNCHANGED <<nodeCfg, lockedCfg, file, boot, watching, loads, flow, global, run>>

\* node.on("close", stopWatching)
stopWatching(n) ==
    /\ nodes[n].phase # "absent"
    /\ ~nodes[n].closed
    /\ LET nd == nodes[n]
           path == nd.configPath
           found == nd.useConfigFile /\ path # "" /\ watchers[path].open
       IN  /\ nodes' = [nodes EXCEPT ![n].closed = TRUE]
           /\ watchers' = IF ~found THEN watchers
                          ELSE IF watchers[path].count - 1 <= 0
                          THEN [watchers EXCEPT ![path] = NoEntry]
                          ELSE [watchers EXCEPT ![path].count = @ - 1]
    /\ UNCHANGED <<nodeCfg, lockedCfg, file, boot, watching, loads, flow, global, run>>

\* the watched file of path is written, replaced or removed: the callback
\* given to fs.watch calls the loadLockedConfigIfNeeded of its closure, the
\* node that created the watcher, which awaits the read
WatchedFileChange(path, c) ==
    /\ c # file
    /\ file' = c
    /\ IF watchers[path].open
       THEN /\ nodes[watchers[path].owner].pending < MaxLoads
            /\ nodes' = [nodes EXCEPT ![watchers[path].owner].pending = @ + 1]
       ELSE UNCHANGED nodes
    /\ UNCHANGED <<nodeCfg, lockedCfg, boot, watching, loads, flow, global, watchers, run>>

\* a reload of node n completes (the file is read as it is at that moment)
ReloadSettles(n) ==
    /\ nodes[n].pending > 0
    /\ nodes' = [nodes EXCEPT ![n].pending = @ - 1,
                              ![n].lockedCfg = loadLockedConfigIfNeeded(nodes[n], file)]
    /\ UNCHANGED <<nodeCfg, lockedCfg, file, boot, watching, loads, flow, global, watchers,
                   run>>

\* ------------------------------------------------------------------------
\* Documents and configurations of the model
\* ------------------------------------------------------------------------
RowAlpha ==
    Obj(<<Entry("id", Num(1)), Entry("name", Str(" alpha ")),
          Entry("active", Bool(TRUE)), Entry("age", Str("1"))>>)
RowNA ==
    Obj(<<Entry("id", Num(1)), Entry("name", Str("NA")),
          Entry("active", Bool(TRUE)), Entry("age", Str("x"))>>)
RowBravo ==
    Obj(<<Entry("id", Num(2)), Entry("name", Str("bravo")),
          Entry("active", Bool(FALSE)), Entry("age", Num(2))>>)
DocData ==
    Obj(<<Entry("items", Arr(<<RowAlpha, RowNA, RowBravo>>)),
          Entry("total", Num(3)), Entry("none", Null)>>)

InitMsg == [EmptyStore EXCEPT !["data"] = DocData]
InitFlow == [EmptyStore EXCEPT !["a"] = Arr(<<RowBravo>>)]
InitGlobal == [EmptyStore EXCEPT !["a"] = Num(1)]

NoAggregate ==
    [mode |-> "", keyExprType |-> "", keyExpr |-> "", valueExprType |-> "", valueExpr |-> ""]
NoOutput == [type |-> "", path |-> ""]
Target(type, path) == [type |-> type, path |-> path]
Field(key, srcType, src, when, transform) ==
    [key |-> key, srcType |-> srcType, src |-> src, when |-> when, whenType |-> "",
     transform |-> transform]

\* select `items` by path, nothing else configured
RPlain ==
    [isNull |-> FALSE, name |-> "", selectType |-> "path", select |-> "items",
     filterType |-> "", filter |-> "", map |-> <<>>, aggregate |-> NoAggregate,
     output |-> Target("flow", "a"), onEmpty |-> "", onError |-> ""]
\* select failures: the expression throws / the value is no array
RStopThrow == [RPlain EXCEPT !.selectType = "jsonata", !.select = FailExpr, !.onError = "stop"]
RStopNonArr == [RPlain EXCEPT !.select = "total", !.onError = "stop"]
RThrowCont == [RPlain EXCEPT !.selectType = "jsonata", !.select = FailExpr,
                             !.onError = "continue"]
\* the root itself is the scope; an unknown aggregate mode
RRoot == [RPlain EXCEPT !.selectType = "", !.select = "", !.aggregate.mode = "foo",
                        !.output = Target("global", "a"), !.onEmpty = "warn"]
\* null selects: empty results under the three policies
REmptyError == [RPlain EXCEPT !.select = "none", !.aggregate.mode = "first",
                              !.onEmpty = "error", !.onError = "stop"]
RSelA == [RPlain EXCEPT !.select = "a", !.aggregate.mode = "count", !.onEmpty = "ok",
                        !.output = Target("global", "a")]
\* every row's filter gate throws; the empty map is accepted
RFilterOk == [RPlain EXCEPT !.filterType = "jsonata", !.filter = FailExpr,
                            !.aggregate.mode = "objectByKey",
                            !.aggregate.keyExpr = FailExpr, !.onEmpty = "ok",
                            !.output = Target("msg", "a")]
\* a filter that throws on one row, map fields with a falsy gate, a throwing
\* gate and a throwing source, a set whose value expression throws; the
\* empty set is an error, under onError = stop
RShape ==
    [RPlain EXCEPT !.filter = NumberExpr,
                   !.map = <<Field("name", "", "name", "", "trim"),
                             Field("n", "jsonata", NumberExpr, "active", "number"),
                             Field("bad", "jsonata", FailExpr, "", ""),
                             Field("gated", "jsonata", "name", FailExpr, "")>>,
                   !.aggregate.mode = "set", !.aggregate.valueExpr = FailExpr,
                   !.output = Target("msg", "payload"), !.onEmpty = "error",
                   !.onError = "stop"]
\* reads the flow, global and msg stores in its filter, map and aggregate
RReader ==
    [RPlain EXCEPT !.filterType = "flow", !.filter = "a",
                   !.map = <<Field("seen", "global", "a", "", "")>>,
                   !.aggregate.mode = "objectByKey",
                   !.aggregate.keyExprType = "msg", !.aggregate.keyExpr = "a",
                   !.output = NoOutput]
\* a null entry of the rules array
RNull == [RPlain EXCEPT !.isNull = TRUE]

RulePool ==
    {RPlain, RStopThrow, RStopNonArr, RThrowCont, RRoot, REmptyError, RSelA,
     RFilterOk, RShape, RReader, RNull}

RuleLists == UNION {[1..n -> RulePool] : n \in 0..MaxRules}

SourcePool ==
    {[type |-> "msg", path |-> "data"], [type |-> "", path |-> ""],
     [type |-> "flow", path |-> "a"], [type |-> "jsonata", path |-> FailExpr]}

DefaultPolicy == [enabled |-> TRUE, hasValues |-> FALSE, values |-> {}]

\* msg.meta.warnings / msg.meta.errors of an arriving message: absent, or a
\* list of entries left by earlier nodes
PriorNote == Note("[prior]", "left by an earlier node")
PriorMeta ==
    {[has |-> FALSE, list |-> <<>>]}
        \cup {[has |-> TRUE, list |-> [i \in 1..k |-> PriorNote]] : k \in 0..MaxPrior}

Arrived(prior) ==
    [IdleRun EXCEPT !.pc = "arrived", !.msg = InitMsg, !.warnings = prior, !.errors = prior]

\* ------------------------------------------------------------------------
\* Spec: one message through a node that uses its own configuration, for
\* every rule list, source and incoming meta of the model
\* ------------------------------------------------------------------------
Init ==
    /\ nodeCfg \in {[source |-> src, naPolicy |-> DefaultPolicy, rules |-> rs] :
                        src \in SourcePool, rs \in RuleLists}
    /\ lockedCfg = [set |-> FALSE, cfg |-> NoCfg]
    /\ file = [kind |-> "missing", cfg |-> NoCfg]
    /\ boot = "ready"
    /\ watching = FALSE
    /\ loads = 0
    /\ flow = InitFlow
    /\ global = InitGlobal
    /\ watchers = NoWatchers
    /\ nodes = NoNodes
    /\ \E prior \in PriorMeta :
          run = [r \in Runs |-> IF r = 1 THEN Arrived(prior) ELSE IdleRun]

Next == \E r \in Runs : Handler(r)

Spec == Init /\ [][Next]_vars

\* ------------------------------------------------------------------------
\* SpecConc: a node locked to a watched config file handles MaxRuns
\* messages while the file is rewritten, removed and reloaded
\* ------------------------------------------------------------------------
NodeCfgC ==
    [source |-> [type |-> "msg", path |-> "data"], naPolicy |-> DefaultPolicy,
     rules |-> <<[RThrowCont EXCEPT !.name = "n1"], [RPlain EXCEPT !.name = "n2"]>>]
FileCfgA ==
    [source |-> [type |-> "", path |-> ""],
     naPolicy |-> [enabled |-> FALSE, hasValues |-> FALSE, values |-> {}],
     rules |-> <<[RRoot EXCEPT !.name = "a1"], [RStopThrow EXCEPT !.name = "a2"]>>]
FileCfgB ==
    [source |-> [type |-> "jsonata", path |-> "data"],
     naPolicy |-> [enabled |-> TRUE, hasValues |-> TRUE, values |-> {"bravo"}],
     rules |-> <<[RThrowCont EXCEPT !.name = "b1"], [RStopNonArr EXCEPT !.name = "b2"]>>]

Json(cfg) == [kind |-> "json", cfg |-> cfg]
FileContents ==
    {[kind |-> "missing", cfg |-> NoCfg], [kind |-> "invalid", cfg |-> NoCfg],
     Json(FileCfgA), Json(FileCfgB)}

InitConc ==
    /\ nodeCfg = NodeCfgC
    /\ lockedCfg = [set |-> FALSE, cfg |-> NoCfg]
    /\ file \in {Json(FileCfgA), [kind |-> "missing", cfg |-> NoCfg]}
    /\ boot = "loading"
    /\ watching = FALSE
    /\ loads = 0
    /\ flow = InitFlow
    /\ global = InitGlobal
    /\ watchers = NoWatchers
    /\ nodes = NoNodes
    /\ run = [r \in Runs |-> Arrived([has |-> FALSE, list |-> <<>>])]

NextConc ==
    \/ \E r \in Runs : Handler(r)
    \/ BootLoad
    \/ \E c \in FileContents : FileChange(c)
    \/ ReloadDone

SpecConc == InitConc /\ [][NextConc]_vars

\* ------------------------------------------------------------------------
\* Properties
\* ------------------------------------------------------------------------
CountOf(seq, Test(_)) == Cardinality({i \in 1..Len(seq) : Test(seq[i])})
IsPrefix(a, b) == Len(a) <= Len(b) /\ SubSeq(b, 1, Len(a)) = a

\* the tag of rule k of a run's configuration
TagAt(rec, k) == RuleTag(rec.cfg.rules[k + 1], k)
\* log entry i of a run is a failed select
SelectFailedAt(rec, i) == rec.log[i].stage = "select" /\ rec.log[i].info = "failed"
\* the notes of a list that carry the tag of rule k
NotesOf(rec, list, k) == CountOf(list, LAMBDA nt : nt.tag = TagAt(rec, k))

\* C1: when the select of rule k fails and the rule says onError = stop, no
\* later rule executes a stage, writes an output, appends a warning or an
\* error, or is counted under ok, warn or err: the failed select is the last
\* stage of the run, and the summary's counters cover rules 0..k only.
C1_StopSkipsLaterRules ==
    \A r \in Runs :
      LET rec == run[r]
      IN  \A i \in 1..Len(rec.log) :
            (SelectFailedAt(rec, i) /\ rec.log[i].rule.onError = "stop") =>
              LET k == rec.log[i].rIndex
              IN  /\ i = Len(rec.log)
                  /\ rec.pc \in {"summary", "done"}
                  /\ rec.rIndex = k
                  /\ \A w \in 1..Len(rec.writes) : rec.writes[w].rIndex < k
                  /\ \A j \in (k + 1)..(Len(rec.cfg.rules) - 1) :
                        /\ NotesOf(rec, rec.warnings.list, j) = 0
                        /\ NotesOf(rec, rec.errors.list, j) = 0
                  /\ rec.ruleOK + rec.ruleWarn + rec.ruleErr = k + 1
                  /\ rec.summary.has =>
                        /\ rec.summary.okc = rec.ruleOK
                        /\ rec.summary.warn = rec.ruleWarn + Len(rec.warnings.list)
                        /\ rec.summary.err = rec.ruleErr + Len(rec.errors.list)

\* a finished run that a stop ended with rules left over
C1_Witness ==
    \E r \in Runs :
      LET rec == run[r]
      IN  /\ rec.pc = "done"
          /\ Len(rec.log) > 0
          /\ SelectFailedAt(rec, Len(rec.log))
          /\ rec.log[Len(rec.log)].rule.onError = "stop"
          /\ rec.rIndex + 1 < Len(rec.cfg.rules)

\* C2: when the select of rule k fails and onError is "continue" or unset,
\* exactly one error is recorded for rule k and the loop goes on to rule
\* k + 1 when there is one.
C2_ContinueRunsNextRule ==
    \A r \in Runs :
      LET rec == run[r]
      IN  \A i \in 1..Len(rec.log) :
            (SelectFailedAt(rec, i) /\ rec.log[i].rule.onError # "stop") =>
              LET k == rec.log[i].rIndex
              IN  /\ NotesOf(rec, rec.errors.list, k) = 1
                  /\ NotesOf(rec, rec.warnings.list, k) = 0
                  /\ (k + 1 < Len(rec.cfg.rules)) =>
                        \/ rec.pc = "select" /\ rec.rIndex = k + 1
                        \/ rec.pc = "failed" /\ rec.rIndex = k + 1
                        \/ \E j \in 1..Len(rec.log) : rec.log[j].rIndex = k + 1

\* rule 0 failed its select, rule 1 went through to its output
C2_Witness ==
    \E r \in Runs :
      LET rec == run[r]
      IN  /\ Len(rec.log) > 1
          /\ SelectFailedAt(rec, 1)
          /\ rec.log[1].rule.onError # "stop"
          /\ rec.log[Len(rec.log)].stage = "output"
          /\ rec.log[Len(rec.log)].rIndex = 1

\* the handler of run r is inside the rule loop or behind it
Started(rec) == rec.pc \notin {"none", "arrived"}

\* C3: the configuration of a run is the one in force when its handler
\* starts and stays that one: whatever BootLoad, FileChange and ReloadDone do
\* to lockedCfg meanwhile, every stage the run executes works on the rule at
\* its index in that snapshot, the NA policy is the snapshot's, and the
\* source awaited at the start is the snapshot's.
C3_RunKeepsSnapshot ==
    [][\A r \in Runs :
          /\ (run[r].pc = "arrived" /\ Started(run'[r])) => run'[r].cfg = EffectiveCfg
          /\ Started(run[r]) => run'[r].cfg = run[r].cfg
          /\ \A i \in 1..Len(run'[r].log) :
                run'[r].log[i].rule = run'[r].cfg.rules[run'[r].log[i].rIndex + 1]
          /\ (run[r].pc = "root" /\ run'[r].pc = "select") =>
                /\ run'[r].root.v =
                      jsonataEval(run[r].cfg.source.path, MsgValue(run[r].msg)).v
                /\ run'[r].policy = PolicyOf(run[r].cfg)
          /\ run'[r].pc \in {"select", "filter", "map", "aggregate", "output"} =>
                run'[r].policy = PolicyOf(run'[r].cfg)]_vars

\* two finished runs that worked on different snapshots, neither of them the
\* configuration in force at the end
C3_Witness ==
    \E r1, r2 \in Runs :
        /\ run[r1].pc = "done" /\ run[r2].pc = "done"
        /\ run[r1].cfg # run[r2].cfg
        /\ run[r1].cfg # EffectiveCfg /\ run[r2].cfg # EffectiveCfg
        /\ Len(run[r1].log) > 1 /\ Len(run[r2].log) > 1

\* C4: an engine failure (the source expression rejects, or the loop body
\* throws outside its try blocks) appends exactly one [engine] error behind
\* the errors already there, leaves the warnings as they are, signals
\* done(err), sends nothing and assigns no summary; the handler does nothing
\* after it.
C4_EngineFailureAborts ==
    [][\A r \in Runs :
          LET a == run[r]
              b == run'[r]
          IN  /\ (a.pc # "failed" /\ b.pc = "failed") =>
                    /\ Len(b.errors.list) = Len(a.errors.list) + 1
                    /\ IsPrefix(a.errors.list, b.errors.list)
                    /\ b.errors.list[Len(b.errors.list)].tag = "[engine]"
                    /\ CountOf(b.errors.list, LAMBDA nt : nt.tag = "[engine]") = 1
                    /\ b.warnings.list = a.warnings.list
                    /\ b.done = "err"
                    /\ ~b.sent
                    /\ ~b.summary.has
                    /\ b.msg = a.msg
                    /\ b.writes = a.writes
                    /\ flow' = flow /\ global' = global
              /\ a.pc = "failed" => b = a]_vars

\* a run that failed at its second rule, after warnings and an error of the
\* first rule
C4_Witness ==
    \E r \in Runs :
      LET rec == run[r]
      IN  /\ rec.pc = "failed"
          /\ rec.rIndex = 1
          /\ NotesOf(rec, rec.warnings.list, 0) > 0
          /\ NotesOf(rec, rec.errors.list, 0) > 0
          /\ rec.errors.list[Len(rec.errors.list)].tag = "[engine]"

\* the stage after filter, map and aggregate
StageAfter(pc) ==
    CASE pc = "filter" -> "map" [] pc = "map" -> "aggregate" [] OTHER -> "output"

\* C5: the filter, map and aggregate stages push warnings only: whatever
\* fails in them, the errors list is untouched and the rule goes on to the
\* next stage and to its output write; after the output and the empty
\* handling the loop goes on to the next rule whatever onEmpty and onError
\* say; the loop is left before the last rule only by a failed select under
\* onError = stop (or by an engine failure).
C5_RowFailuresAreWarnings ==
    [][\A r \in Runs :
          LET a == run[r]
              b == run'[r]
          IN  /\ (a.pc \in {"filter", "map", "aggregate"} /\ b # a) =>
                    /\ b.errors = a.errors
                    /\ IsPrefix(a.warnings.list, b.warnings.list)
                    /\ b.pc = StageAfter(a.pc)
                    /\ b.rIndex = a.rIndex
              /\ (a.pc = "output" /\ b # a) =>
                    /\ Len(b.writes) = Len(a.writes) + 1
                    /\ b.writes[Len(b.writes)].rIndex = a.rIndex
                    /\ b.rIndex = a.rIndex + 1
                    /\ b.pc = IF b.rIndex < Len(b.cfg.rules) THEN "select" ELSE "summary"
              /\ (a.pc # "summary" /\ b.pc = "summary" /\ b.rIndex < Len(b.cfg.rules)) =>
                    /\ a.pc = "select"
                    /\ SelectFailedAt(b, Len(b.log))
                    /\ b.log[Len(b.log)].rule.onError = "stop"]_vars

\* rule 0 had a filter, a when, a map source and a set value fail, recorded
\* an empty-result error under onError = stop, wrote its output, and rule 1
\* ran to its output
C5_Witness ==
    \E r \in Runs :
      LET rec == run[r]
          Has(text) == \E i \in 1..Len(rec.warnings.list) :
                          rec.warnings.list[i] = Note(TagAt(rec, 0), text)
      IN  /\ rec.pc = "done"
          /\ Len(rec.cfg.rules) = 2
          /\ Has("filter error on row") /\ Has("when error") /\ Has("map error")
          /\ Has("set valueExpr error")
          /\ rec.cfg.rules[1].onError = "stop"
          /\ rec.errors.list = <<Note(TagAt(rec, 0), "produced empty result")>>
          /\ Len(rec.writes) = 2

\* the note of the empty handling of rule k
EmptyNote(rec, k) == Note(TagAt(rec, k), "produced empty result")
\* a list holds a note
HasNote(list, nt) == \E i \in 1..Len(list) : list[i] = nt
\* log entry i of a run is the output of a rule whose result was empty
EmptyOutputAt(rec, i) ==
    /\ rec.log[i].stage = "output"
    /\ IsEmpty(ModeOf(rec.log[i].rule), rec.log[i].val)

C7_ListsOnlyGrow ==
    [][\A r \in Runs :
          /\ IsPrefix(run[r].warnings.list, run'[r].warnings.list)
          /\ IsPrefix(run[r].errors.list, run'[r].errors.list)]_vars

\* a finished run whose lists still start with the entries the message
\* arrived with, followed by entries of this run
C7_Witness ==
    \E r \in Runs :
      LET rec == run[r]
      IN  /\ rec.pc \in {"done", "failed"}
          /\ Len(rec.warnings.list) > 1 /\ rec.warnings.list[1] = PriorNote
          /\ Len(rec.errors.list) > 1 /\ rec.errors.list[1] = PriorNote

\* the location a write went to, as the run sees it now
LocValue(rec, type, path) ==
    IF type = "flow" THEN flow[path]
    ELSE IF type = "global" THEN global[path]
    ELSE rec.msg[path]
SameLoc(w1, w2) == w1.type = w2.type /\ w1.path = w2.path
StageNo(stage) ==
    CASE stage = "select" -> 1 [] stage = "filter" -> 2 [] stage = "map" -> 3
      [] stage = "aggregate" -> 4 [] OTHER -> 5

\* the stages and the writes of a run are in list order of the rules
InListOrder(rec) ==
    /\ \A i, j \in 1..Len(rec.log) :
          i < j => \/ rec.log[i].rIndex < rec.log[j].rIndex
                   \/ /\ rec.log[i].rIndex = rec.log[j].rIndex
                      /\ StageNo(rec.log[i].stage) < StageNo(rec.log[j].stage)
    /\ \A i, j \in 1..Len(rec.writes) : i < j => rec.writes[i].rIndex < rec.writes[j].rIndex

\* write j is the last of several writes of the run to its location
LastOfColliding(rec, j) ==
    /\ \E i \in 1..(j - 1) : SameLoc(rec.writes[i], rec.writes[j])
    /\ \A k \in (j + 1)..Len(rec.writes) : ~SameLoc(rec.writes[k], rec.writes[j])

HasWrite(rec, k) == \E i \in 1..Len(rec.writes) : rec.writes[i].rIndex = k
WriteOf(rec, k) == rec.writes[CHOOSE i \in 1..Len(rec.writes) : rec.writes[i].rIndex = k]
HasEvent(rec, k, stage) ==
    \E i \in 1..Len(rec.log) : rec.log[i].rIndex = k /\ rec.log[i].stage = stage
EventOf(rec, k, stage) ==
    rec.log[CHOOSE i \in 1..Len(rec.log) : rec.log[i].rIndex = k /\ rec.log[i].stage = stage]
\* the rows a select value stands for
ScopeOf(v) == IF IsArray(v) THEN Items(v) ELSE <<>>

\* rule k + 1 reads, in its filter, a map field or its objectByKey key, the
\* location rule k wrote to, and what it computes is computed from the
\* written value
ReadsObserved(rec, k) ==
    LET w == WriteOf(rec, k)
        rule == rec.cfg.rules[k + 2]
        sel == EventOf(rec, k + 1, "select")
        fil == EventOf(rec, k + 1, "filter")
        mp == EventOf(rec, k + 1, "map")
        ag == EventOf(rec, k + 1, "aggregate")
    IN  /\ (HasEvent(rec, k + 1, "filter") /\ rule.filterType = w.type /\ rule.filter = w.path) =>
              fil.val = IF Truthy(w.val) THEN Arr(ScopeOf(sel.val)) ELSE Arr(<<>>)
        /\ HasEvent(rec, k + 1, "map") =>
              \A j \in 1..Len(rule.map) :
                 (/\ rule.map[j].srcType = w.type /\ rule.map[j].src = w.path
                  /\ rule.map[j].when = "" /\ rule.map[j].key # ""
                  /\ \A l \in (j + 1)..Len(rule.map) : rule.map[l].key # rule.map[j].key) =>
                    /\ Len(mp.val.e) = Len(fil.val.e)
                    /\ \A i \in 1..Len(mp.val.e) :
                          PropOf(mp.val.e[i].val, rule.map[j].key) =
                             applyTransform(OrElse(rule.map[j].transform, "none"),
                                            normalizeNA(rec.policy, w.val))
        /\ (/\ HasEvent(rec, k + 1, "aggregate") /\ ModeOf(rule) = "objectByKey"
            /\ rule.aggregate.keyExprType = w.type /\ rule.aggregate.keyExpr = w.path) =>
              ag.val = IF Len(mp.val.e) = 0 THEN Obj(<<>>)
                       ELSE Obj(<<Entry(JsString(IF IsNullish(w.val) THEN Str("") ELSE w.val),
                                        mp.val.e[Len(mp.val.e)].val)>>)

\* the root is the message itself: a select by path of the msg location
\* rule k wrote to yields the written value
SelectSeesMsgWrite(rec, k) ==
    LET w == WriteOf(rec, k)
        rule == rec.cfg.rules[k + 2]
    IN  (/\ rec.root.isMsg /\ w.type = "msg" /\ HasEvent(rec, k + 1, "select")
         /\ rule.selectType = "path" /\ rule.select = w.path) =>
           EventOf(rec, k + 1, "select").val = w.val

\* the source names the location rule k wrote to
SourceIs(cfg, w) ==
    /\ cfg.source.type \in {"", "msg", "flow", "global"}
    /\ OrElse(cfg.source.type, "msg") = w.type
    /\ cfg.source.path = w.path

\* rule k + 1 selects the source root, whose location rule k wrote to, and
\* gets the written value
SelectSeesSourceWrite(rec, k) ==
    LET w == WriteOf(rec, k)
        rule == rec.cfg.rules[k + 2]
    IN  (/\ SourceIs(rec.cfg, w) /\ HasEvent(rec, k + 1, "select")
         /\ rule.selectType \notin {"path", "jsonata"}) =>
           EventOf(rec, k + 1, "select").val = w.val

\* the value at the source location when the message arrived
ArrivalRoot(cfg) ==
    CASE cfg.source.type = "flow" -> StoreGet(InitFlow, cfg.source.path)
      [] cfg.source.type = "global" -> StoreGet(InitGlobal, cfg.source.path)
      [] OTHER -> StoreGet(InitMsg, cfg.source.path)

\* every select of a run whose source is a msg path, a flow key or a global
\* key works on the value that was there when the message arrived
SelectsFromArrivalRoot(rec) ==
    (rec.cfg.source.type \in {"", "msg", "flow", "global"} /\ rec.cfg.source.path # "") =>
       \A i \in 1..Len(rec.log) :
          rec.log[i].stage = "select" =>
             rec.log[i].val = SelectScope(rec.log[i].rule, ArrivalRoot(rec.cfg)).v

\* rule k wrote, rule k + 1 exists and is not a null entry
Adjacent(rec, k) == HasWrite(rec, k) /\ k + 2 <= Len(rec.cfg.rules) /\ ~rec.cfg.rules[k + 2].isNull

WritesOf(rec, k) == CountOf(rec.writes, LAMBDA w : w.rIndex = k)
\* rule k has left the loop body
Completed(rec, k) == rec.rIndex > k \/ (rec.rIndex = k /\ rec.pc \in {"summary", "done"})

\* C10: the output step of a rule writes the aggregate result, empty or
\* not, to rule.output (type msg when unset, path extract.<rule index> when
\* unset) and to no other location, and it is the rule's only write; no
\* other stage writes; a rule whose select failed has no write, and its
\* select step leaves msg, flow and global as they were.
C10_OneWritePerSelectedRule ==
    [][\A r \in Runs :
          LET a == run[r]
              b == run'[r]
              rule == a.cfg.rules[a.rIndex + 1]
              type == IF rule.output.type = "" THEN "msg" ELSE rule.output.type
              path == IF rule.output.path = "" THEN ExtractPath(a.rIndex) ELSE rule.output.path
          IN  /\ (a.pc = "output" /\ b # a) =>
                    /\ a.result = EventOf(a, a.rIndex, "aggregate").val
                    /\ b.writes = Append(a.writes, [rIndex |-> a.rIndex, type |-> type,
                                                    path |-> path, val |-> a.result])
                    /\ type \in {"msg", "flow", "global"}
                    /\ b.msg = IF type = "msg" THEN [a.msg EXCEPT ![path] = a.result] ELSE a.msg
                    /\ flow' = IF type = "flow" THEN [flow EXCEPT ![path] = a.result] ELSE flow
                    /\ global' = IF type = "global" THEN [global EXCEPT ![path] = a.result]
                                 ELSE global
              /\ (a.pc \in {"select", "filter", "map", "aggregate"} /\ b # a) =>
                    /\ b.writes = a.writes /\ b.msg = a.msg
                    /\ flow' = flow /\ global' = global
              /\ \A k \in 0..(Len(b.cfg.rules) - 1) :
                    WritesOf(b, k) =
                       IF /\ Completed(b, k) /\ HasEvent(b, k, "select")
                          /\ EventOf(b, k, "select").info = "ok"
                       THEN 1 ELSE 0]_vars

\* a finished run: rule 0 failed its select and wrote nothing, rule 1 wrote
\* an empty result to its default location msg.extract.1
C10_Witness ==
    \E r \in Runs :
      LET rec == run[r]
      IN  /\ rec.pc = "done"
          /\ Len(rec.cfg.rules) = 2
          /\ SelectFailedAt(rec, 1)
          /\ Len(rec.writes) = 1
          /\ rec.writes[1] = [rIndex |-> 1, type |-> "msg", path |-> ExtractPath(1),
                              val |-> rec.msg[ExtractPath(1)]]
          /\ rec.cfg.rules[2].output = NoOutput
          /\ IsEmpty(ModeOf(rec.cfg.rules[2]), rec.writes[1].val)

\* C11: a finished run shows exactly one of four statuses: the red ring
\* (fatal) iff the run ended in the catch; otherwise the red dot iff
\* counts.err > 0, the yellow dot iff counts.err = 0 and counts.warn > 0, the
\* green dot otherwise; the green dot is shown only when both lists are
\* empty, and summary.ok is true exactly when the status is neither the red
\* dot nor the red ring.
C11_StatusClassifiesRun ==
    \A r \in Runs :
      LET rec == run[r]
      IN  rec.pc \in {"done", "failed"} =>
            /\ rec.status \in {"red-ring", "red-dot", "yellow-dot", "green-dot"}
            /\ rec.status = "red-ring" <=> rec.done = "err"
            /\ rec.done = "err" <=> rec.pc = "failed"
            /\ rec.pc = "done" =>
                  /\ rec.summary.has
                  /\ rec.status = "red-dot" <=> rec.summary.err > 0
                  /\ rec.status = "yellow-dot" <=>
                        (rec.summary.err = 0 /\ rec.summary.warn > 0)
                  /\ rec.status = "green-dot" <=>
                        (rec.summary.err = 0 /\ rec.summary.warn = 0)
            /\ rec.status = "green-dot" =>
                  Len(rec.errors.list) = 0 /\ Len(rec.warnings.list) = 0
            /\ (rec.summary.has /\ rec.summary.ok) <=>
                  rec.status \notin {"red-dot", "red-ring"}

\* a finished run with warnings and no error: yellow dot, summary.ok true
C11_Witness ==
    \E r \in Runs :
      /\ run[r].pc = "done" /\ run[r].status = "yellow-dot"
      /\ run[r].summary.ok /\ Len(run[r].warnings.list) > 0
      /\ Len(run[r].log) > 0

\* ------------------------------------------------------------------------
\* SpecRows: one message through a node with a single rule, for every
\* array of at most MaxRows rows at data.items, every rule of StagePool and
\* every NA policy of PolicyPool
\* ------------------------------------------------------------------------
\* a row with a blank name, no id, and the number 1 where RowAlpha has "1"
RowBlank == Obj(<<Entry("name", Str(" ")), Entry("age", Num(1))>>)
\* a row that is itself an array
RowList == Arr(<<Num(1), Num(2)>>)
RowPool == {RowAlpha, RowNA, RowBravo, RowBlank, RowList}
RowSeqs == UNION {[1..n -> RowPool] : n \in 0..MaxRows}

SBase == [RPlain EXCEPT !.output = NoOutput]
\* set: of a mapped field, of a raw property, of an expression that fails on
\* some rows, of the first property
SSetName == [SBase EXCEPT !.map = <<Field("name", "", "name", "", "")>>,
                          !.aggregate.mode = "set", !.aggregate.valueExpr = "name"]
SSetRaw == [SBase EXCEPT !.aggregate.mode = "set", !.aggregate.valueExpr = "name"]
SSetAge == [SBase EXCEPT !.aggregate.mode = "set", !.aggregate.valueExpr = "age"]
SSetNum == [SBase EXCEPT !.aggregate.mode = "set", !.aggregate.valueExpr = NumberExpr]
SSetFirst == [SBase EXCEPT !.aggregate.mode = "set"]
\* objectByKey: of raw rows by id, of mapped records by an expression that
\* fails on some
SByKey == [SBase EXCEPT !.aggregate.mode = "objectByKey", !.aggregate.keyExpr = "id"]
SByKeyNum == [SBase EXCEPT !.map = <<Field("name", "", "name", "", ""),
                                     Field("age", "path", "age", "", "")>>,
                           !.aggregate.mode = "objectByKey",
                           !.aggregate.keyExpr = NumberExpr]
\* the first raw row
SFirstRaw == [SBase EXCEPT !.aggregate.mode = "first"]
\* filters over raw rows, with first and count
SFilterFirst == [SBase EXCEPT !.filter = "active", !.aggregate.mode = "first"]
SFilterCount == [SBase EXCEPT !.filter = NumberExpr, !.aggregate.mode = "count"]
\* map fields with transforms, a gate that is falsy on some rows, a gate
\* that throws and a source that throws
SMap ==
    [SBase EXCEPT !.map = <<Field("name", "", "name", "", "string"),
                            Field("flag", "path", "name", "", "bool01"),
                            Field("n", "jsonata", NumberExpr, "active", "number"),
                            Field("bad", "jsonata", FailExpr, "", ""),
                            Field("gated", "jsonata", "name", FailExpr, "")>>]
SMapFirst == [SMap EXCEPT !.aggregate.mode = "first"]
\* an unknown mode over raw rows
SUnknown == [SBase EXCEPT !.aggregate.mode = "foo"]

StagePool ==
    {SBase, SSetName, SSetRaw, SSetAge, SSetNum, SSetFirst, SByKey, SByKeyNum, SFirstRaw, SFilterFirst,
     SFilterCount, SMap, SMapFirst, SUnknown}

PolicyPool ==
    {DefaultPolicy,
     [enabled |-> FALSE, hasValues |-> FALSE, values |-> {}],
     [enabled |-> TRUE, hasValues |-> TRUE, values |-> {"bravo"}]}

StageCfgs ==
    {[source |-> [type |-> "msg", path |-> "data"], naPolicy |-> pol, rules |-> <<rule>>] :
        pol \in PolicyPool, rule \in StagePool}
    \cup {[source |-> [type |-> "jsonata", path |-> "data"], naPolicy |-> DefaultPolicy,
           rules |-> <<SMap>>]}

\* a message whose document has the rows at data.items
ArrivedDoc(rows) ==
    [Arrived([has |-> FALSE, list |-> <<>>])
        EXCEPT !.msg = [EmptyStore EXCEPT !["data"] = Obj(<<Entry("items", Arr(rows))>>)]]

InitRows ==
    /\ nodeCfg \in StageCfgs
    /\ lockedCfg = [set |-> FALSE, cfg |-> NoCfg]
    /\ file = [kind |-> "missing", cfg |-> NoCfg]
    /\ boot = "ready"
    /\ watching = FALSE
    /\ loads = 0
    /\ flow = InitFlow
    /\ global = InitGlobal
    /\ watchers = NoWatchers
    /\ nodes = NoNodes
    /\ \E rows \in RowSeqs :
          run = [r \in Runs |-> IF r = 1 THEN ArrivedDoc(rows) ELSE IdleRun]

SpecRows == InitRows /\ [][Next]_vars

\* ------------------------------------------------------------------------
\* Properties of the stages
\* ------------------------------------------------------------------------
\* the value the set aggregation takes from mapped record i of a run that
\* is about to aggregate
SetValue(rec, i) ==
    LET agg == rec.cfg.rules[rec.rIndex + 1].aggregate
    IN  IF agg.valueExpr # ""
        THEN Eval(EnvOf(rec), OrElse(agg.valueExprType, "jsonata"), agg.valueExpr,
                  rec.mapped[i])
        ELSE FirstValue(rec.mapped[i])
\* record i gives the set a value
Contributes(rec, i) ==
    LET r == SetValue(rec, i)
    IN  /\ r.ok
        /\ r.v \notin {Null, Undefined}
        /\ ~isNA(rec.policy, r.v)
        /\ Trim(JsString(r.v)) # ""
SetForm(rec, i) == Str(JsString(SetValue(rec, i).v))
\* the first contributing record with the string form x
FirstWith(rec, x) ==
    CHOOSE i \in 1..Len(rec.mapped) :
       /\ Contributes(rec, i) /\ SetForm(rec, i) = x
       /\ \A j \in 1..(i - 1) : ~(Contributes(rec, j) /\ SetForm(rec, j) = x)

\* C12: the set aggregation yields an array of strings none of which is
\* blank after trimming, without duplicates, holding exactly the string
\* forms of the records whose value evaluates, is not null or undefined, is
\* not NA under the policy and is not blank, in the order of their first
\* occurrence; a failing value expression adds one warning and no error.
C12_SetIsCleanAndOrdered ==
    [][\A r \in Runs :
          LET a == run[r]
              b == run'[r]
              out == Items(b.result)
              idx == 1..Len(a.mapped)
          IN  (/\ a.pc = "aggregate" /\ b # a
               /\ ModeOf(a.cfg.rules[a.rIndex + 1]) = "set") =>
                 /\ IsArray(b.result)
                 /\ \A j \in 1..Len(out) : out[j].k = "string" /\ Trim(out[j].s) # ""
                 /\ \A j1, j2 \in 1..Len(out) : j1 # j2 => out[j1] # out[j2]
                 /\ {out[j] : j \in 1..Len(out)} =
                       {SetForm(a, i) : i \in {i \in idx : Contributes(a, i)}}
                 /\ \A j1, j2 \in 1..Len(out) :
                       j1 < j2 => FirstWith(a, out[j1]) < FirstWith(a, out[j2])
                 /\ Len(b.warnings.list) =
                       Len(a.warnings.list) + Cardinality({i \in idx : ~SetValue(a, i).ok})
                 /\ b.errors = a.errors]_vars

\* a set of two values was built from three raw rows under an enabled
\* policy: the NA name contributed nothing and the values kept their order
C12_Witness ==
    \E r \in Runs :
      LET rec == run[r]
      IN  /\ rec.pc = "output"
          /\ ModeOf(rec.cfg.rules[1]) = "set"
          /\ rec.policy.enabled
          /\ Len(rec.mapped) = 3
          /\ Len(rec.cfg.rules[1].map) = 0
          /\ PropOf(rec.mapped[2], "name") = Str("NA")
          /\ rec.result = Arr(<<Str("bravo"), Str(" alpha ")>>)

\* the key the objectByKey aggregation computes for mapped record i
KeyValue(rec, i) ==
    LET agg == rec.cfg.rules[rec.rIndex + 1].aggregate
    IN  Eval(EnvOf(rec), OrElse(agg.keyExprType, "jsonata"), agg.keyExpr, rec.mapped[i])
\* String(k ?? "")
KeyForm(rec, i) ==
    LET k == KeyValue(rec, i).v
    IN  IF k \in {Null, Undefined} THEN "" ELSE JsString(k)
\* the last record whose key evaluated to the string x
LastWith(rec, x) ==
    CHOOSE i \in 1..Len(rec.mapped) :
       /\ KeyValue(rec, i).ok /\ KeyForm(rec, i) = x
       /\ \A j \in (i + 1)..Len(rec.mapped) : ~(KeyValue(rec, j).ok /\ KeyForm(rec, j) = x)

\* C13: the objectByKey aggregation yields an object with one entry per
\* distinct stringified key among the records whose key evaluated, each
\* holding the last record with that key; a record whose key evaluation
\* fails is left out and adds one warning; the object never has more keys
\* than there are mapped records.
C13_ObjectByKeyLastWins ==
    [][\A r \in Runs :
          LET a == run[r]
              b == run'[r]
              ent == b.result.e
              idx == 1..Len(a.mapped)
              good == {i \in idx : KeyValue(a, i).ok}
          IN  (/\ a.pc = "aggregate" /\ b # a
               /\ ModeOf(a.cfg.rules[a.rIndex + 1]) = "objectByKey") =>
                 /\ isObj(b.result)
                 /\ \A j1, j2 \in 1..Len(ent) : j1 # j2 => ent[j1].key # ent[j2].key
                 /\ {ent[j].key : j \in 1..Len(ent)} = {KeyForm(a, i) : i \in good}
                 /\ \A j \in 1..Len(ent) : ent[j].val = a.mapped[LastWith(a, ent[j].key)]
                 /\ Len(ent) <= Len(a.mapped)
                 /\ Len(b.warnings.list) = Len(a.warnings.list) + Cardinality(idx \ good)
                 /\ b.errors = a.errors]_vars

\* of three mapped records one failed its key and two others shared a key:
\* the object has one entry, holding the later of the two
C13_Witness ==
    \E r \in Runs :
      LET rec == run[r]
      IN  /\ rec.pc = "output"
          /\ ModeOf(rec.cfg.rules[1]) = "objectByKey"
          /\ Len(rec.mapped) = 3
          /\ rec.mapped[1] # rec.mapped[3]
          /\ Len(rec.warnings.list) = 1
          /\ Len(rec.result.e) = 1
          /\ rec.result.e[1].val = rec.mapped[3]

\* C14, as stated: the result of a rule that went through the aggregate
\* stage has the shape of its mode: count an integer, first a single record
\* or null and never a collection, every other mode an array or a map.
C14_Original ==
    \A r \in Runs :
      LET rec == run[r]
          mode == ModeOf(rec.cfg.rules[rec.rIndex + 1])
      IN  rec.pc = "output" =>
            CASE mode = "count" -> rec.result.k = "number"
              [] mode = "first" -> rec.result = Null \/ isObj(rec.result)
              [] OTHER -> IsArray(rec.result) \/ isObj(rec.result)

\* C14, amended: count yields the number of mapped records; first yields
\* the first mapped record or null when there is none, which is a record
\* when map fields are configured and the first raw row, whatever it is,
\* when they are not; set and objectByKey yield an array and a map; array
\* and any unknown mode yield the array of the mapped records.
C14_ResultShapeByMode ==
    [][\A r \in Runs :
          LET a == run[r]
              b == run'[r]
              rule == a.cfg.rules[a.rIndex + 1]
              mode == ModeOf(rule)
          IN  (a.pc = "aggregate" /\ b # a) =>
                 /\ mode = "count" => b.result = Num(Len(a.mapped))
                 /\ mode = "first" =>
                       /\ b.result = IF Len(a.mapped) > 0 THEN a.mapped[1] ELSE Null
                       /\ Len(rule.map) > 0 => (b.result = Null \/ isObj(b.result))
                       /\ Len(rule.map) = 0 =>
                             b.result = IF Len(a.rows) > 0 THEN a.rows[1] ELSE Null
                 /\ mode = "set" => IsArray(b.result)
                 /\ mode = "objectByKey" => isObj(b.result)
                 /\ mode \notin {"count", "first", "set", "objectByKey"} =>
                       b.result = Arr(a.mapped)
                 /\ b.result # Undefined]_vars

\* mode first over raw rows whose first row is an array: the result is that
\* array
C14_Witness ==
    \E r \in Runs :
      LET rec == run[r]
      IN  /\ rec.pc = "output"
          /\ ModeOf(rec.cfg.rules[1]) = "first"
          /\ Len(rec.cfg.rules[1].map) = 0
          /\ Len(rec.rows) > 1
          /\ rec.result = RowList

\* the gate of a row for a run that is about to filter
GateOf(rec, row) ==
    LET rule == rec.cfg.rules[rec.rIndex + 1]
    IN  Eval(EnvOf(rec), OrElse(rule.filterType, "jsonata"), rule.filter, row)

\* C15: with a filter, the rows after the filter stage are the selected
\* rows whose gate is truthy, in their order; every row whose gate throws
\* adds one 'filter error on row' warning, nothing else is added and the
\* errors stay as they are; without a filter the selected rows pass as they
\* are and nothing is added.
C15_FilterKeepsTruthyRows ==
    [][\A r \in Runs :
          LET a == run[r]
              b == run'[r]
              rule == a.cfg.rules[a.rIndex + 1]
              thrown == {i \in 1..Len(a.scope) : ~GateOf(a, a.scope[i]).ok}
          IN  (a.pc = "filter" /\ b # a) =>
                 /\ b.errors = a.errors
                 /\ rule.filter = "" => b.rows = a.scope /\ b.warnings = a.warnings
                 /\ rule.filter # "" =>
                       /\ b.rows = SelectSeq(a.scope,
                                     LAMBDA row : GateOf(a, row).ok /\ Truthy(GateOf(a, row).v))
                       /\ Len(b.warnings.list) = Len(a.warnings.list) + Cardinality(thrown)
                       /\ IsPrefix(a.warnings.list, b.warnings.list)
                       /\ \A i \in (Len(a.warnings.list) + 1)..Len(b.warnings.list) :
                             b.warnings.list[i] = Note(TagAt(a, a.rIndex), "filter error on row")]_vars

\* of three selected rows the gate threw on one, was falsy on another and
\* truthy on the last: one row and one warning are left
C15_Witness ==
    \E r \in Runs :
      LET rec == run[r]
      IN  /\ rec.pc = "map"
          /\ rec.cfg.rules[1].filter # ""
          /\ Len(rec.scope) = 3
          /\ ~GateOf(rec, rec.scope[1]).ok
          /\ GateOf(rec, rec.scope[2]).ok /\ ~Truthy(GateOf(rec, rec.scope[2]).v)
          /\ rec.rows = <<rec.scope[3]>>
          /\ Len(rec.warnings.list) = 1 /\ Len(rec.errors.list) = 0

\* the gate and the source of map field mf on a row, for a run that is
\* about to map
WhenOf(rec, mf, row) ==
    IF mf.when = "" THEN Ok(Bool(TRUE))
    ELSE Eval(EnvOf(rec), OrElse(mf.whenType, "jsonata"), mf.when, row)
SrcOf(rec, mf, row) == Eval(EnvOf(rec), OrElse(mf.srcType, "jsonata"), mf.src, row)
\* the field is assigned on that row
Assigned(rec, mf, row) ==
    /\ WhenOf(rec, mf, row).ok /\ Truthy(WhenOf(rec, mf, row).v)
    /\ SrcOf(rec, mf, row).ok
    /\ mf.key # ""
\* map field j is the last of the rule with its key
LastOfKey(maps, j) == \A l \in (j + 1)..Len(maps) : maps[l].key # maps[j].key

\* C16: with map fields configured, the map stage emits one record per
\* filtered row, in order; a field whose gate is falsy or throws, or whose
\* source throws, is absent from the record; a field that evaluates holds
\* transform(normalizeNA(source value)); each throwing gate or source adds
\* one warning and no error.  Without map fields the rows pass as they are.
C16_MapEmitsOneRecordPerRow ==
    [][\A r \in Runs :
          LET a == run[r]
              b == run'[r]
              maps == a.cfg.rules[a.rIndex + 1].map
              Failed(i, j) ==
                 \/ ~WhenOf(a, maps[j], a.rows[i]).ok
                 \/ /\ Truthy(WhenOf(a, maps[j], a.rows[i]).v)
                    /\ ~SrcOf(a, maps[j], a.rows[i]).ok
          IN  (a.pc = "map" /\ b # a) =>
                 /\ b.errors = a.errors
                 /\ Len(maps) = 0 => b.mapped = a.rows /\ b.warnings = a.warnings
                 /\ Len(maps) > 0 =>
                       /\ Len(b.mapped) = Len(a.rows)
                       /\ \A i \in 1..Len(a.rows) :
                             /\ isObj(b.mapped[i])
                             /\ \A j \in 1..Len(maps) :
                                   LastOfKey(maps, j) =>
                                      IF Assigned(a, maps[j], a.rows[i])
                                      THEN /\ HasKey(b.mapped[i], maps[j].key)
                                           /\ PropOf(b.mapped[i], maps[j].key) =
                                                 applyTransform(
                                                    OrElse(maps[j].transform, "none"),
                                                    normalizeNA(a.policy,
                                                       SrcOf(a, maps[j], a.rows[i]).v))
                                      ELSE ~HasKey(b.mapped[i], maps[j].key)
                       /\ Len(b.warnings.list) = Len(a.warnings.list) +
                             Cardinality({<<i, j>> \in (1..Len(a.rows)) \X (1..Len(maps)) :
                                             Failed(i, j)})]_vars

\* three rows mapped by five fields under the default policy: the NA name
\* became "" and 0 (normalised, then transformed), the number field is
\* there for the first row, failed for the second and was gated off for the
\* third; the two failing fields are in no record
C16_Witness ==
    \E r \in Runs :
      LET rec == run[r]
      IN  /\ rec.pc = "aggregate"
          /\ Len(rec.cfg.rules[1].map) = 5
          /\ rec.rows = <<RowAlpha, RowNA, RowBravo>>
          /\ rec.policy = PolicyOf([naPolicy |-> DefaultPolicy])
          /\ Len(rec.mapped) = 3
          /\ PropOf(rec.mapped[1], "n") = Num(1)
          /\ PropOf(rec.mapped[2], "name") = Str("") /\ PropOf(rec.mapped[2], "flag") = Num(0)
          /\ \A i \in 2..3 : ~HasKey(rec.mapped[i], "n")
          /\ \A i \in 1..3 : ~HasKey(rec.mapped[i], "bad") /\ ~HasKey(rec.mapped[i], "gated")

\* the outcome the empty handling gives under a rule's onEmpty
OutcomeOfEmpty(rule) ==
    CASE rule.onEmpty = "error" -> "err"
      [] rule.onEmpty \in {"warn", ""} -> "warn"
      [] OTHER -> "ok"

\* C17: a select that yields null or undefined is no failure: the rule goes
\* on with no rows, adds no error, writes its empty result and ends as its
\* onEmpty says; a select that yields any other value that is no array adds
\* exactly one 'select did not resolve to an array' error, and the rule has
\* no filter, map, aggregate or output step and no write.
C17_NullSelectIsEmptyNotFailure ==
    [][\A r \in Runs :
          LET a == run[r]
              b == run'[r]
              rule == a.cfg.rules[a.rIndex + 1]
              sel == SelectScope(rule, RootValue(a))
              nonArray == sel.ok /\ sel.v \notin {Null, Undefined} /\ sel.v.k # "array"
          IN  /\ (a.pc = "select" /\ b # a /\ ~rule.isNull /\ sel.ok
                  /\ sel.v \in {Null, Undefined}) =>
                    /\ b.pc = "filter" /\ b.scope = <<>> /\ b.rIndex = a.rIndex
                    /\ b.errors = a.errors /\ b.warnings = a.warnings
                    /\ b.ruleErr = a.ruleErr
              /\ (a.pc = "select" /\ b # a /\ ~rule.isNull /\ nonArray) =>
                    /\ b.errors.list =
                          Append(a.errors.list,
                                 Note(TagAt(a, a.rIndex), "select did not resolve to an array"))
                    /\ b.ruleErr = a.ruleErr + 1
                    /\ b.pc \in {"select", "summary"}
                    /\ b.pc = "select" => b.rIndex = a.rIndex + 1
                    /\ b.writes = a.writes
              /\ \A i \in 1..Len(b.log) :
                    LET ev == b.log[i]
                        k == ev.rIndex
                    IN  /\ (ev.stage = "select" /\ ev.val \in {Null, Undefined}
                            /\ ev.info = "ok" /\ Completed(b, k)) =>
                              /\ \A st \in {"filter", "map", "aggregate", "output"} :
                                    HasEvent(b, k, st)
                              /\ HasWrite(b, k)
                              /\ IsEmpty(ModeOf(ev.rule), WriteOf(b, k).val)
                              /\ EventOf(b, k, "output").info = OutcomeOfEmpty(ev.rule)
                        /\ (ev.stage = "select" /\ ev.info = "failed") =>
                              /\ \A st \in {"filter", "map", "aggregate", "output"} :
                                    ~HasEvent(b, k, st)
                              /\ ~HasWrite(b, k)
                              /\ NotesOf(b, b.errors.list, k) = 1]_vars

\* a finished run: rule 0 selected undefined, wrote its empty count and
\* ended ok under onEmpty = ok; rule 1 selected a number and has the one
\* error
C17_Witness ==
    \E r \in Runs :
      LET rec == run[r]
      IN  /\ rec.pc = "done"
          /\ Len(rec.cfg.rules) = 2
          /\ Len(rec.log) = 6
          /\ rec.log[1].val = Undefined /\ rec.log[1].info = "ok"
          /\ rec.log[5].stage = "output" /\ rec.log[5].info = "ok"
          /\ rec.log[5].val = Num(0)
          /\ rec.log[6].val = Num(3) /\ SelectFailedAt(rec, 6)
          /\ rec.errors.list =
                <<Note(TagAt(rec, 1), "select did not resolve to an array")>>

\* the rules of a run that ended in error / with a warning: a failed
\* select or an empty result under onEmpty = error / an empty result under
\* onEmpty = warn or unset
EndedInError(rec) ==
    Cardinality({i \in 1..Len(rec.log) :
                    \/ SelectFailedAt(rec, i)
                    \/ rec.log[i].stage = "output" /\ rec.log[i].info = "err"})
EndedWithWarning(rec) ==
    Cardinality({i \in 1..Len(rec.log) :
                    rec.log[i].stage = "output" /\ rec.log[i].info = "warn"})

\* C18, as stated: in the summary of a run that onError = stop did not end
\* early, counts.ok + counts.warn + counts.err = counts.rules, counts.err is
\* the number of rules that ended in error and counts.warn the number of
\* rules that ended with a warning.
C18_Original ==
    \A r \in Runs :
      LET rec == run[r]
      IN  (rec.pc = "done" /\ ~rec.stopped) =>
            /\ rec.summary.okc + rec.summary.warn + rec.summary.err = rec.summary.rules
            /\ rec.summary.err = EndedInError(rec)
            /\ rec.summary.warn = EndedWithWarning(rec)

\* ------------------------------------------------------------------------
\* SpecPair: the same node handles two messages with the same document, the
\* second of which arrives with entries in msg.meta; the rules write to the
\* message only, so the two runs share nothing they change
\* ------------------------------------------------------------------------
PairRules == UNION {[1..n -> {RShape, RReader, RThrowCont}] : n \in 0..MaxRules}

InitPair ==
    /\ nodeCfg \in {[source |-> src, naPolicy |-> DefaultPolicy, rules |-> rs] :
                       src \in {[type |-> "msg", path |-> "data"],
                                [type |-> "jsonata", path |-> "data"]},
                       rs \in PairRules}
    /\ lockedCfg = [set |-> FALSE, cfg |-> NoCfg]
    /\ file = [kind |-> "missing", cfg |-> NoCfg]
    /\ boot = "ready"
    /\ watching = FALSE
    /\ loads = 0
    /\ flow = InitFlow
    /\ global = InitGlobal
    /\ watchers = NoWatchers
    /\ nodes = NoNodes
    /\ \E prior \in PriorMeta :
          run = [r \in Runs |-> IF r = 1 THEN Arrived([has |-> FALSE, list |-> <<>>])
                                ELSE IF r = 2 THEN Arrived(prior) ELSE IdleRun]

SpecPair == InitPair /\ [][Next]_vars

\* C19, as stated: two runs with the same rule-set, stores and document
\* that differ only in the entries msg.meta had on arrival end with the same
\* summary.ok, counts.warn, counts.err and status.
C19_Original ==
    (run[1].pc = "done" /\ run[2].pc = "done") =>
       /\ run[1].summary.ok = run[2].summary.ok
       /\ run[1].summary.warn = run[2].summary.warn
       /\ run[1].summary.err = run[2].summary.err
       /\ run[1].status = run[2].status

\* ------------------------------------------------------------------------
\* SpecWatch: MaxNodes nodes are created with config-file fields of
\* WatchCfgs, register with the shared watchers and are closed, in any order
\* ------------------------------------------------------------------------
InitWatch ==
    /\ nodeCfg = NoCfg
    /\ lockedCfg = [set |-> FALSE, cfg |-> NoCfg]
    /\ file = [kind |-> "missing", cfg |-> NoCfg]
    /\ boot = "ready"
    /\ watching = FALSE
    /\ loads = 0
    /\ flow = EmptyStore
    /\ global = EmptyStore
    /\ watchers = NoWatchers
    /\ nodes = NoNodes
    /\ run = [r \in Runs |-> IdleRun]

NextWatch ==
    \/ \E n \in NodeIds, c \in WatchCfgs : CreateNode(n, c)
    \/ \E n \in NodeIds, c \in {Json(FileCfgA), [kind |-> "missing", cfg |-> NoCfg]} :
          startWatchingIfNeeded(n, c)
    \/ \E n \in NodeIds : stopWatching(n)

SpecWatch == InitWatch /\ [][NextWatch]_vars

\* the nodes that registered for a path and are not closed
LiveOn(path) ==
    {n \in NodeIds : nodes[n].registered /\ ~nodes[n].closed /\ nodes[n].configPath = path}

\* C20, as stated: the watcher of a path is open exactly as long as a node
\* that registered for it is not closed, and its count is the number of
\* such nodes.
C20_Original ==
    \A path \in WatchPaths :
       /\ watchers[path].open <=> LiveOn(path) # {}
       /\ watchers[path].count = Cardinality(LiveOn(path))

\* ------------------------------------------------------------------------
\* SpecLoad: a node locked to a watched config file handles one message
\* while the file is rewritten, removed, made unreadable or emptied, and
\* reloaded
\* ------------------------------------------------------------------------
\* a file whose content is the JSON null, false, 0 or ""
FalsyFile == [kind |-> "falsy", cfg |-> NoCfg]
LoadContents == FileContents \cup {FalsyFile}

InitLoad ==
    /\ nodeCfg = NodeCfgC
    /\ lockedCfg = [set |-> FALSE, cfg |-> NoCfg]
    /\ file \in LoadContents
    /\ boot = "loading"
    /\ watching = FALSE
    /\ loads = 0
    /\ flow = InitFlow
    /\ global = InitGlobal
    /\ watchers = NoWatchers
    /\ nodes = NoNodes
    /\ run = [r \in Runs |-> IF r = 1 THEN Arrived([has |-> FALSE, list |-> <<>>])
                                      ELSE IdleRun]

NextLoad ==
    \/ Handler(1)
    \/ BootLoad
    \/ \E c \in LoadContents : FileChange(c)
    \/ ReloadDone

SpecLoad == InitLoad /\ [][NextLoad]_vars

\* a step in which a load of the locked configuration settles
LoadSettles == (boot = "loading" /\ boot' = "ready") \/ loads' = loads - 1
\* a step in which run 1 starts and takes its configuration
RunStarts == run[1].pc = "arrived" /\ run'[1].pc # "arrived"
\* the configuration a run takes from a snapshot
UsedWith(snapshot) == IF snapshot.set THEN snapshot.cfg ELSE nodeCfg

\* C22, as stated: a load that fails leaves the snapshot as it was, a load
\* of a configuration installs it, a snapshot is set to none only by a load
\* that finds the file missing, and a run that starts uses the snapshot or,
\* without one, the node's own configuration.
C22_Original ==
    [][/\ LoadSettles /\ file.kind = "invalid" => lockedCfg' = lockedCfg
       /\ LoadSettles /\ file.kind = "json" => lockedCfg' = [set |-> TRUE, cfg |-> file.cfg]
       /\ lockedCfg.set /\ ~lockedCfg'.set => LoadSettles /\ file.kind = "missing"
       /\ LoadSettles /\ file.kind = "missing" => ~lockedCfg'.set
       /\ RunStarts => run'[1].cfg = UsedWith(lockedCfg)]_vars

\* C22: a load that fails (the file is unreadable or is not JSON) leaves
\* the snapshot as it was, a load of a configuration installs it, a snapshot
\* is set to none only by a load that finds the file missing or holding a
\* falsy JSON value (null, false, 0, ""), which both do set it to none, and
\* a run that starts uses the snapshot or, without one, the node's own
\* configuration.
C22_FailedReloadKeepsSnapshot ==
    [][/\ LoadSettles /\ file.kind = "invalid" => lockedCfg' = lockedCfg
       /\ LoadSettles /\ file.kind = "json" => lockedCfg' = [set |-> TRUE, cfg |-> file.cfg]
       /\ lockedCfg.set /\ ~lockedCfg'.set =>
             LoadSettles /\ file.kind \in {"missing", "falsy"}
       /\ LoadSettles /\ file.kind \in {"missing", "falsy"} => ~lockedCfg'.set
       /\ RunStarts => run'[1].cfg = UsedWith(lockedCfg)]_vars

\* a run of FileCfgA's rules has started while the file on disk is unreadable
\* and no reload is pending: the failed reload kept the snapshot
C22_Witness ==
    /\ file.kind = "invalid"
    /\ boot = "ready" /\ watching /\ loads = 0
    /\ lockedCfg = [set |-> TRUE, cfg |-> FileCfgA]
    /\ run[1].pc \notin {"none", "arrived"}
    /\ run[1].cfg = FileCfgA

\* ------------------------------------------------------------------------
\* SpecShare: MaxNodes nodes are created on the same watched config file,
\* locked to it or not, while the file is rewritten, removed and reloaded
\* ------------------------------------------------------------------------
SharePath == "a.json"
ShareCfgs ==
    {[useConfigFile |-> TRUE, watchFile |-> TRUE, lockToFile |-> l, configPath |-> SharePath] :
        l \in BOOLEAN}

InitShare ==
    /\ nodeCfg = NoCfg
    /\ lockedCfg = [set |-> FALSE, cfg |-> NoCfg]
    /\ file \in {Json(FileCfgA), [kind |-> "missing", cfg |-> NoCfg]}
    /\ boot = "ready"
    /\ watching = FALSE
    /\ loads = 0
    /\ flow = EmptyStore
    /\ global = EmptyStore
    /\ watchers = NoWatchers
    /\ nodes = NoNodes
    /\ run = [r \in Runs |-> IdleRun]

NextShare ==
    \/ \E n \in NodeIds, c \in ShareCfgs : CreateNode(n, c)
    \/ \E n \in NodeIds : startWatchingIfNeeded(n, file)
    \/ \E n \in NodeIds : stopWatching(n)
    \/ \E c \in FileContents : WatchedFileChange(SharePath, c)
    \/ \E n \in NodeIds : ReloadSettles(n)

SpecShare == InitShare /\ [][NextShare]_vars

\* the open nodes that watch the shared file and are locked to it
WatchingLocked ==
    {n \in NodeIds : nodes[n].registered /\ ~nodes[n].closed /\ nodes[n].lockToFile
                     /\ nodes[n].configPath = SharePath}

\* C21, as stated: once the reloads that a change of the watched file
\* started have settled, every open node that watches the file and is
\* locked to it holds the file's content as its snapshot (none when the file
\* is missing), the snapshot its next run takes.
C21_Original ==
    (\A n \in NodeIds : nodes[n].pending = 0) =>
       \A n \in WatchingLocked :
          /\ file.kind = "json" => nodes[n].lockedCfg = [set |-> TRUE, cfg |-> file.cfg]
          /\ file.kind = "missing" => ~nodes[n].lockedCfg.set

====
